---- MODULE Spec2Model ----
(***************************************************************************)
(* Job lifecycle, checkpoint/resume and progress reporting of the Modal    *)
(* pipelines: the Job Ledger (core/job_status.py), the Checkpoint Manager  *)
(* (utils/preemption.py), the phased resumable optimizer                   *)
(* (pipelines/mosaic.py, run_mosaic_boltz2) and the external pipeline      *)
(* runner (pipelines/boltzgen.py, run_boltzgen).                           *)
(*                                                                         *)
(* Python's Optional[T] is a sequence of length at most one: None is <<>>  *)
(* and a value v is <<v>>.  A Python dict is a function whose DOMAIN is    *)
(* its set of keys, so that "key in dict" is "key \in DOMAIN dict".        *)
(***************************************************************************)
EXTENDS Integers, Sequences, FiniteSets, TLC

VARIABLES
    job_status_dict,  \* core/config.py job_status_dict: job_id -> record
    now,              \* time.time()
    call,             \* the ledger call in progress (SpecApi)
    \* run_boltzgen and run_boltzgen_with_progress (SpecBoltzgen)
    attempt,               \* retries used so far by modal.Retries
    pc,                    \* position of the main thread in run_boltzgen
    main_existing,         \* the record the main thread has read and not yet written
    pending_event,         \* (stage, message) of the send_progress of check_line_for_progress
    reported_stages,       \* check_line_for_progress: stage keys already reported
    return_code,           \* process.wait()
    stop_progress_monitor, \* threading.Event
    monitor_pc,            \* position of the progress_monitor thread
    monitor_existing,      \* the record the monitor thread has read and not yet written
    monitor_event,         \* (stage, message) of the monitor's send_progress
    last_design_counts,    \* progress_monitor: stage -> count last reported
    target_exists,         \* work_dir / target.pdb is on the volume
    output_dir_exists,     \* work_dir / boltzgen_output is on the volume
    preempted,             \* run_boltzgen: set by handle_sigterm
    handler_existing,      \* the record handle_sigterm has read and not yet written
    n_lines, n_polls, n_sigterm,  \* lines read, polls made, signals delivered so far
    error_writes, output_writes,  \* ledger updates so far that carried an error / an output
    \* run_mosaic_boltz2 (SpecMosaic)
    n_steps, sharpen_steps, chunk_size,  \* arguments of run_mosaic_boltz2
    mo_attempt,        \* retries used so far by modal.Retries
    kills,             \* attempts ended so far by the platform killing the container
    mo_pc,             \* position of run_mosaic_boltz2
    mo_preempted,      \* PreemptionManager.preempted
    sigterm_sent,      \* the container of this attempt has received SIGTERM
    sigterm_at,        \* where SIGTERM found the attempt: its position and chunk_steps_done
    exception,         \* the exception propagating out of run_mosaic_boltz2
    work_dir,          \* MOSAIC_WORK_DIR / job_id as the running container sees it
    committed_dir,     \* MOSAIC_WORK_DIR / job_id as last committed to the volume
    phase, completed_steps,             \* run_mosaic_boltz2 locals, lines 338-339
    phase_name, start_steps, total_steps, steps_completed, steps_this,  \* run_phase locals
    chunk_steps_done,  \* optimization steps done inside the running simplex_APGM call
    loaded_state,      \* what load_state() returned to this attempt
    steps_executed,    \* phase -> optimization steps executed by this attempt
    phases_returned,   \* phases whose run_phase call has returned in this attempt
    checkpoint_writes, \* steps_completed of the checkpoints written by the running run_phase
    executed_ever,     \* phase -> highest step executed by any attempt
    executed_before,   \* phase -> highest step executed by an earlier attempt
    reexecuted,        \* steps this attempt executed that an earlier attempt had executed
    ended_at,          \* the position at which the previous attempt ended
    seed,              \* the seed argument of run_mosaic_boltz2, None if not passed
    loss_domain,       \* the values the objective takes on the candidates of this job
    seed_value,        \* run_mosaic_boltz2 local, line 249
    soft_sequence, best_sequence,  \* run_mosaic_boltz2 locals, lines 340-359
    current, best, best_loss,      \* run_phase locals, lines 371-374
    observed_losses,   \* the objective of every chunk candidate of the job so far
    seeds_used,        \* the seeds any attempt derived a chunk key from or wrote to a checkpoint
    last_write         \* phase -> steps_completed of the job's last checkpoint write, 0 if none

ledgerVars == <<job_status_dict, now>>
bzVars == <<attempt, pc, main_existing, pending_event, reported_stages, return_code,
            stop_progress_monitor, monitor_pc, monitor_existing, monitor_event,
            last_design_counts, target_exists, output_dir_exists, preempted,
            handler_existing, n_lines, n_polls, n_sigterm, error_writes, output_writes>>
moVars == <<n_steps, sharpen_steps, chunk_size, mo_attempt, kills, mo_pc, mo_preempted, sigterm_sent, sigterm_at, exception, work_dir, committed_dir, phase,
            completed_steps, phase_name, start_steps, total_steps, steps_completed, steps_this,
            chunk_steps_done, loaded_state, steps_executed, phases_returned, checkpoint_writes,
            executed_ever, executed_before, reexecuted, ended_at, seed, loss_domain, seed_value,
            soft_sequence, best_sequence, current, best, best_loss, observed_losses, seeds_used,
            last_write>>
\* The entry of a pipeline function (run_boltzgen, run_mosaic_boltz2,
\* run_rfdiffusion3) under the platform's retry policy: the arguments of the
\* call, the job id each attempt works under, and the runs of the tool.
VARIABLES
    pipeline,          \* the function the caller invoked
    entry_args,        \* the arguments of the call: job_id, target_pdb, target_structure_url, target_sequence
    entry_pc,          \* the position of the current attempt
    entry_attempt,     \* the retries the platform has spent
    effective_job_id,  \* the local job_id of the current attempt, None before it is assigned
    uuid_calls,        \* the calls of uuid.uuid4() so far
    tool_runs,         \* one record per attempt that ran the tool: job_id, work_dir, cmd
    entry_exception    \* the class of the exception that ended the last attempt, "" if none

enVars == <<pipeline, entry_args, entry_pc, entry_attempt, effective_job_id, uuid_calls,
            tool_runs, entry_exception>>
\* One call of run_boltzgen_with_progress with wall-clock time.
VARIABLES
    run_pc,              \* the position of the main thread in run_boltzgen_with_progress
    last_progress_time,  \* the scanner's last_progress_time
    log_file,            \* the size in bytes of the log file, None while it does not exist
    lines_read,          \* how many times each output line was read
    run_exception,       \* the exception that left the function, None if none
    poll_due_at,         \* when the monitor's wait(timeout=30) times out
    process              \* the subprocess: "none", "alive", "exited" or "killed"

rnVars == <<run_pc, last_progress_time, log_file, lines_read, run_exception, poll_due_at,
            process>>
\* A fan-out call site: run_rfdiffusion3's per-design loop or compute_scores'
\* Boltz-2 call, with the sub-calls it makes for its candidates.
VARIABLES
    fan_site,       \* the function that fans out, "" if none
    fan_args,       \* total_designs, sequences_per_backbone, boltz_samples
    fan_pc,         \* the position in the call site
    fan_idx,        \* idx of the per-design loop
    fan_locals,     \* mpnn_sequences, boltz_scores, ipsae_scores, boltz_error of the current candidate
    fan_results,    \* results, one record per design appended
    fan_failed,     \* the sub-calls that raised, as <<idx, function>>
    fan_result,     \* the dict the call site returned, None if it has not
    fan_exception   \* the exception that left the call site, None if none

fanVars == <<fan_site, fan_args, fan_pc, fan_idx, fan_locals, fan_results, fan_failed, fan_result,
             fan_exception>>
\* One call of run_boltz2 and the predictions it runs.
VARIABLES
    msa_pc,           \* the position in run_boltz2
    msa_args,         \* job_id, use_self_hosted_msa, skip_msa_server and the BOLTZ_USE_MSA_SERVER setting
    msa_job_id,       \* the local job_id, None before it is assigned
    use_msa_server,   \* the local use_msa_server
    msa_mode_used,    \* the local msa_mode_used
    predictions,      \* the calls of run_boltz_prediction: use_msa_server, timeout_seconds, outcome
    msa_exception     \* the exception that left run_boltz2, None if none

msaVars == <<msa_pc, msa_args, msa_job_id, use_msa_server, msa_mode_used, predictions,
             msa_exception>>
\* What the last call of get_job_status was asked and what it returned.
VARIABLES get_returned

\* A PreemptionManager whose termination hook is registered and fired.
VARIABLES
    hook_args,       \* the adapter, whether it has a volume, whether on_preempt was passed
    hook_pc,         \* the position: in register_signal_handler or in _handler
    hook_preempted,  \* self.preempted
    hook_firings,    \* how many times the hook has fired
    hook_trace       \* the steps _handler has taken, per firing

hookVars == <<hook_args, hook_pc, hook_preempted, hook_firings, hook_trace>>
\* The log scanner of run_boltzgen_with_progress on its own.
VARIABLES
    scan_trace       \* one record per line scanned: the line, the keys seen before and after, the events sent

scanVars == <<scan_trace>>
\* The background poller of run_boltzgen_with_progress on its own.
VARIABLES
    stage_files,     \* stage -> the design files in the stage's output directory
    poll_trace       \* one record per poll: what count_designs_in_stage returned, the events sent

pollVars == <<stage_files, poll_trace>>
\* The ledger writers of run_boltzgen_with_progress.
VARIABLES
    emitted          \* the progress events written so far, in order, each with its writer

\* One PreemptionManager whose save_state is followed step by step.
VARIABLES
    sv_pc,           \* the position in save_state, or after the kill
    sv_file,         \* checkpoint.json as the running worker sees it, None if it does not exist
    sv_committed,    \* checkpoint.json as last committed to the volume
    sv_state,        \* the argument of the running or last call of save_state
    sv_previous,     \* the argument of the last call of save_state that returned
    sv_saves,        \* the calls of save_state so far
    sv_sigterm,      \* SIGTERM was handled inside save_state
    sv_loaded        \* what load_state did on the next worker, None before it ran

saveVars == <<sv_pc, sv_file, sv_committed, sv_state, sv_previous, sv_saves, sv_sigterm,
              sv_loaded>>
\* The main thread of run_mosaic_boltz2 inside one update_job_status call, and
\* the SIGTERM handler that ran while it was there.
VARIABLES
    mo_existing,       \* the record the main thread read at line 31 and has not yet written back
    raced              \* the handler's event and the main thread's call of the last such overlap
raceVars == <<mo_existing, raced>>
tailVars == <<scanVars, pollVars, emitted, saveVars, raceVars>>
auxVars == <<fanVars, msaVars, get_returned, hookVars, tailVars>>
extVars == <<enVars, rnVars, auxVars>>
vars == <<job_status_dict, now, call, bzVars, moVars, extVars>>

None == <<>>
Some(v) == <<v>>

\* Python truthiness of a str | None argument: None and "" are falsy.
Truthy(x) == x # None /\ x[1] # ""

\* dict[k] = v
SetKey(d, k, v) == [f \in DOMAIN d \cup {k} |-> IF f = k THEN v ELSE d[f]]

EmptyDict == [k \in {} |-> None]

(***************************************************************************)
(* Job Ledger, core/job_status.py                                          *)
(***************************************************************************)

\* A lookup that answers with a default record for a key it does not hold.
get_or_default(d, job_id) ==
    IF job_id \in DOMAIN d THEN Some(d[job_id])
    ELSE Some([job_id |-> job_id, status |-> "pending", progress |-> <<>>])

\* job_status_dict.get(job_id), None for a key the Dict does not hold.
get_job_status(d, job_id) == IF job_id \in DOMAIN d THEN Some(d[job_id]) ELSE None

\* The stored record ignored: every update starts from a synthesized record.
ReadFresh(d, job_id, default_status, t) ==
    [job_id |-> job_id, status |-> default_status, progress |-> <<>>, created_at |-> t]

\* get_job_status(job_id) or {job_id, status, progress: [], created_at}
ReadExisting(d, job_id, default_status, t) ==
    IF get_job_status(d, job_id) # None
    THEN get_job_status(d, job_id)[1]
    ELSE [job_id |-> job_id, status |-> default_status, progress |-> <<>>, created_at |-> t]

ProgressEvent(stage, message, t) == [stage |-> stage, message |-> message, timestamp |-> t]

\* The new event put in front of the list.
PrependProgress(existing, stage, message, t) ==
    IF Truthy(stage) /\ Truthy(message)
    THEN SetKey(existing, "progress", <<ProgressEvent(stage[1], message[1], t)>> \o existing["progress"])
    ELSE existing

AppendProgress(existing, stage, message, t) ==
    IF Truthy(stage) /\ Truthy(message)
    THEN SetKey(existing, "progress", Append(existing["progress"], ProgressEvent(stage[1], message[1], t)))
    ELSE existing

\* A field written only while the record does not have it yet.
SetIfMissing(existing, key, value) ==
    IF value # None /\ key \notin DOMAIN existing THEN SetKey(existing, key, value[1]) ELSE existing

SetIfNotNone(existing, key, value) ==
    IF value # None THEN SetKey(existing, key, value[1]) ELSE existing

\* update_job_status, lines 38-53: the modification of the record read.
ModifyRecord(existing, status, stage, message, output, error, usage, t) ==
    SetIfNotNone(
        SetIfNotNone(
            SetIfNotNone(
                AppendProgress(
                    SetKey(SetKey(existing, "status", status), "updated_at", t),
                    stage, message, t),
                "output", output),
            "error", error),
        "usage", usage)

\* send_usage_update, lines 87-92: the modification of the record read.
ModifyUsage(existing, gpu_type, execution_seconds, t) ==
    SetKey(
        SetKey(existing, "usage",
               [gpu_type |-> gpu_type, execution_seconds |-> execution_seconds, last_updated |-> t]),
        "updated_at", t)

\* job_status_dict[job_id] = existing
StoreRecord(d, job_id, existing) == SetKey(d, job_id, existing)

\* update_job_status run by one writer without interruption.
update_job_status(d, job_id, status, stage, message, output, error, usage, t) ==
    StoreRecord(d, job_id,
        ModifyRecord(ReadExisting(d, job_id, "pending", t),
                     status, stage, message, output, error, usage, t))

send_progress(d, job_id, stage, message, t) ==
    IF Truthy(job_id)
    THEN update_job_status(d, job_id[1], "running", Some(stage), Some(message), None, None, None, t)
    ELSE d

send_usage_update(d, job_id, gpu_type, execution_seconds, t) ==
    IF ~Truthy(job_id)
    THEN d
    ELSE StoreRecord(d, job_id[1],
             ModifyUsage(ReadExisting(d, job_id[1], "running", t), gpu_type, execution_seconds, t))

send_completion(d, job_id, status, output, error, usage, t) ==
    IF Truthy(job_id)
    THEN update_job_status(d, job_id[1], status, None, None, output, error, usage, t)
    ELSE d

\* run_boltzgen not called.
BzIdle ==
    /\ attempt = 0
    /\ pc = "idle"
    /\ main_existing = None
    /\ pending_event = None
    /\ reported_stages = {}
    /\ return_code = None
    /\ stop_progress_monitor = FALSE
    /\ monitor_pc = "off"
    /\ monitor_existing = None
    /\ monitor_event = None
    /\ last_design_counts = EmptyDict
    /\ target_exists = FALSE
    /\ output_dir_exists = FALSE
    /\ preempted = FALSE
    /\ handler_existing = None
    /\ n_lines = 0
    /\ n_polls = 0
    /\ n_sigterm = 0
    /\ error_writes = 0
    /\ output_writes = 0

NoSteps == [coarse |-> 0, sharpen |-> 0]

\* A work directory holding no checkpoint, no target and no array file.
EmptyDir == [checkpoint |-> None, target |-> FALSE, arrays |-> EmptyDict]

\* A sequence array: the phase and step whose chunk produced it, whether it
\* is the chunk's working candidate ("soft") or its best candidate ("best"),
\* and the objective computed on it (0 where none was).
Candidate(kind, phase_arg, steps_arg, loss_value) ==
    [kind |-> kind, phase |-> phase_arg, steps |-> steps_arg, loss |-> loss_value]

\* The array drawn from jax.random.gumbel(key, ...) at lines 351-356.
SeededCandidate == Candidate("seeded", "", 0, 0)

\* The locals of an attempt of run_mosaic_boltz2 before its first statement.
MoAttemptLocals ==
    /\ mo_preempted = FALSE
    /\ sigterm_sent = FALSE
    /\ sigterm_at = None
    /\ exception = None
    /\ phase = None
    /\ completed_steps = 0
    /\ phase_name = ""
    /\ start_steps = 0
    /\ total_steps = 0
    /\ steps_completed = 0
    /\ steps_this = 0
    /\ chunk_steps_done = 0
    /\ loaded_state = None
    /\ steps_executed = NoSteps
    /\ phases_returned = {}
    /\ checkpoint_writes = <<>>
    /\ reexecuted = 0
    /\ soft_sequence = None
    /\ best_sequence = None
    /\ current = None
    /\ best = None
    /\ best_loss = None

\* run_mosaic_boltz2 not called.
MoIdle ==
    /\ n_steps = 0
    /\ sharpen_steps = 0
    /\ chunk_size = 0
    /\ mo_attempt = 0
    /\ kills = 0
    /\ mo_pc = "idle"
    /\ work_dir = EmptyDir
    /\ committed_dir = EmptyDir
    /\ executed_ever = NoSteps
    /\ executed_before = NoSteps
    /\ ended_at = ""
    /\ seed = None
    /\ loss_domain = {}
    /\ seed_value = 0
    /\ observed_losses = {}
    /\ seeds_used = {}
    /\ last_write = NoSteps
    /\ MoAttemptLocals

\* No pipeline entry is in progress.
EnIdle ==
    /\ pipeline = ""
    /\ entry_args = [job_id |-> None, target_pdb |-> None, target_structure_url |-> None,
                     target_sequence |-> None]
    /\ entry_pc = "idle"
    /\ entry_attempt = 0
    /\ effective_job_id = None
    /\ uuid_calls = 0
    /\ tool_runs = <<>>
    /\ entry_exception = ""

\* run_boltzgen_with_progress not called.
RnIdle ==
    /\ run_pc = "idle"
    /\ last_progress_time = 0
    /\ log_file = None
    /\ lines_read = << >>
    /\ run_exception = None
    /\ poll_due_at = 0
    /\ process = "none"

\* The locals of a candidate before its sub-calls: mpnn_sequences = [],
\* boltz_scores = {}, ipsae_scores = {} (None in compute_scores), boltz_error = None.
FanDefaults(site) ==
    [mpnn_sequences |-> <<>>, boltz_scores |-> {},
     ipsae_scores |-> IF site = "compute_scores" THEN None ELSE Some({}),
     boltz_error |-> None]

\* No fan-out call site is running.
FanIdle ==
    /\ fan_site = ""
    /\ fan_args = [total_designs |-> 0, sequences_per_backbone |-> 0, boltz_samples |-> 0]
    /\ fan_pc = "idle"
    /\ fan_idx = 0
    /\ fan_locals = FanDefaults("")
    /\ fan_results = <<>>
    /\ fan_failed = {}
    /\ fan_result = None
    /\ fan_exception = None

\* run_boltz2 not called.
MsaIdle ==
    /\ msa_pc = "idle"
    /\ msa_args = [job_id |-> None, use_self_hosted_msa |-> FALSE, skip_msa_server |-> FALSE,
                   BOLTZ_USE_MSA_SERVER |-> FALSE]
    /\ msa_job_id = None
    /\ use_msa_server = FALSE
    /\ msa_mode_used = ""
    /\ predictions = <<>>
    /\ msa_exception = None

\* No PreemptionManager of the hook's specification exists.
HookIdle ==
    /\ hook_args = [adapter |-> "", volume |-> FALSE, on_preempt |-> FALSE]
    /\ hook_pc = "idle"
    /\ hook_preempted = FALSE
    /\ hook_firings = 0
    /\ hook_trace = <<>>

\* No line has been scanned.
ScanIdle == scan_trace = <<>>

\* No poller runs.
PollIdle == stage_files = EmptyDict /\ poll_trace = <<>>

\* No save_state is followed.
SaveIdle ==
    /\ sv_pc = "idle"
    /\ sv_file = None
    /\ sv_committed = None
    /\ sv_state = None
    /\ sv_previous = None
    /\ sv_saves = 0
    /\ sv_sigterm = FALSE
    /\ sv_loaded = None

RaceIdle ==
    /\ mo_existing = None
    /\ raced = None

TailIdle == ScanIdle /\ PollIdle /\ emitted = <<>> /\ SaveIdle /\ RaceIdle

AuxIdle == FanIdle /\ MsaIdle /\ get_returned = None /\ HookIdle /\ TailIdle

ExtIdle == EnIdle /\ RnIdle /\ AuxIdle

(***************************************************************************)
(* SpecApi: one sequential writer calling the ledger functions with        *)
(* arbitrary arguments.                                                    *)
(***************************************************************************)

MaxCalls == 3

JobIds == {"j1"}
OptJobIds == {None} \cup {Some(j) : j \in JobIds}
Statuses == {"pending", "running", "completed", "failed"}
StageArgs == {"", "init"}
MessageArgs == {"", "m"}
OptStages == {None} \cup {Some(s) : s \in StageArgs}
OptMessages == {None} \cup {Some(m) : m \in MessageArgs}
OptOutputs == {None, Some("out1")}
OptErrors == {None, Some(""), Some("err1")}
GpuType == "A100"
UsageArg == [gpu_type |-> GpuType, execution_seconds |-> 7]
OptUsages == {None, Some(UsageArg)}

NoCall == [op |-> "none", job_id |-> None, status |-> "", stage |-> None, message |-> None,
           output |-> None, error |-> None, usage |-> None]

InitApi ==
    /\ job_status_dict = EmptyDict
    /\ now = 0
    /\ call = NoCall
    /\ BzIdle
    /\ ExtIdle
    /\ MoIdle

\* The caller's side of a call: the function and the arguments it passes.
CallUpdateJobStatus ==
    /\ call = NoCall
    /\ now < MaxCalls
    /\ \E job_id \in JobIds, status \in Statuses, stage \in OptStages, message \in OptMessages,
          output \in OptOutputs, error \in OptErrors, usage \in OptUsages :
          call' = [op |-> "update_job_status", job_id |-> Some(job_id), status |-> status,
                   stage |-> stage, message |-> message, output |-> output, error |-> error,
                   usage |-> usage]
    /\ UNCHANGED <<job_status_dict, now, bzVars, extVars, moVars>>

CallSendProgress ==
    /\ call = NoCall
    /\ now < MaxCalls
    /\ \E job_id \in OptJobIds, stage \in StageArgs, message \in MessageArgs :
          call' = [NoCall EXCEPT !.op = "send_progress", !.job_id = job_id,
                                 !.stage = Some(stage), !.message = Some(message)]
    /\ UNCHANGED <<job_status_dict, now, bzVars, extVars, moVars>>

CallSendUsageUpdate ==
    /\ call = NoCall
    /\ now < MaxCalls
    /\ \E job_id \in OptJobIds :
          call' = [NoCall EXCEPT !.op = "send_usage_update", !.job_id = job_id]
    /\ UNCHANGED <<job_status_dict, now, bzVars, extVars, moVars>>

CallSendCompletion ==
    /\ call = NoCall
    /\ now < MaxCalls
    /\ \E job_id \in OptJobIds, status \in Statuses, output \in OptOutputs, error \in OptErrors,
          usage \in OptUsages :
          call' = [NoCall EXCEPT !.op = "send_completion", !.job_id = job_id, !.status = status,
                                 !.output = output, !.error = error, !.usage = usage]
    /\ UNCHANGED <<job_status_dict, now, bzVars, extVars, moVars>>

\* The functions called, each run from entry to return.
UpdateJobStatus ==
    /\ call.op = "update_job_status"
    /\ job_status_dict' = update_job_status(job_status_dict, call.job_id[1], call.status, call.stage,
                                            call.message, call.output, call.error, call.usage, now)
    /\ now' = now + 1
    /\ call' = NoCall
    /\ UNCHANGED <<bzVars, extVars, moVars>>

SendProgress ==
    /\ call.op = "send_progress"
    /\ job_status_dict' = send_progress(job_status_dict, call.job_id, call.stage[1], call.message[1], now)
    /\ now' = now + 1
    /\ call' = NoCall
    /\ UNCHANGED <<bzVars, extVars, moVars>>

SendUsageUpdate ==
    /\ call.op = "send_usage_update"
    /\ job_status_dict' = send_usage_update(job_status_dict, call.job_id, GpuType, now, now)
    /\ now' = now + 1
    /\ call' = NoCall
    /\ UNCHANGED <<bzVars, extVars, moVars>>

SendCompletion ==
    /\ call.op = "send_completion"
    /\ job_status_dict' = send_completion(job_status_dict, call.job_id, call.status, call.output,
                                          call.error, call.usage, now)
    /\ now' = now + 1
    /\ call' = NoCall
    /\ UNCHANGED <<bzVars, extVars, moVars>>

\* The job ids a reader asks for: the writers' and one no writer uses.
GetIds == JobIds \cup {"j2"}

\* get_job_status(job_id) called by a reader between two calls of the writer.
GetJobStatusOf(job_id) ==
    /\ call = NoCall
    /\ get_returned' = Some([job_id |-> job_id, value |-> get_job_status(job_status_dict, job_id)])
    /\ UNCHANGED <<job_status_dict, now, call, bzVars, moVars, enVars, rnVars, fanVars, msaVars,
                   hookVars, tailVars>>

GetJobStatus == \E job_id \in GetIds : GetJobStatusOf(job_id)

NextApi ==
    \/ CallUpdateJobStatus \/ CallSendProgress \/ CallSendUsageUpdate \/ CallSendCompletion
    \/ UpdateJobStatus \/ SendProgress \/ SendUsageUpdate \/ SendCompletion

SpecApi == InitApi /\ [][NextApi]_vars

\* SpecReader: a reader calling get_job_status while a pipeline function
\* writes progress events, usage updates and its completion.
NextReader ==
    \/ CallSendProgress \/ CallSendUsageUpdate \/ CallSendCompletion
    \/ SendProgress \/ SendUsageUpdate \/ SendCompletion
    \/ GetJobStatus

SpecReader == InitApi /\ [][NextReader]_vars

\* A step in which the function `op` runs on the call in progress.
Runs(op) == call.op = op /\ call' = NoCall

ProgressOf(d, job_id) == IF job_id \in DOMAIN d THEN d[job_id]["progress"] ELSE <<>>

IsPrefix(s, t) == Len(s) <= Len(t) /\ SubSeq(t, 1, Len(s)) = s

\* C3: with a single sequential writer, the first update_job_status with a
\* stage and a message on an unseen job_id leaves a progress list of exactly
\* one entry, with that stage and message, and no later ledger call makes
\* the progress list of a job shorter.
C3_FirstEntryThenNeverShorter ==
    [][ /\ ( /\ Runs("update_job_status")
             /\ call.job_id[1] \notin DOMAIN job_status_dict
             /\ Truthy(call.stage) /\ Truthy(call.message) )
           => /\ Len(ProgressOf(job_status_dict', call.job_id[1])) = 1
              /\ ProgressOf(job_status_dict', call.job_id[1])[1]["stage"] = call.stage[1]
              /\ ProgressOf(job_status_dict', call.job_id[1])[1]["message"] = call.message[1]
        /\ \A j \in DOMAIN job_status_dict :
              /\ j \in DOMAIN job_status_dict'
              /\ Len(ProgressOf(job_status_dict', j)) >= Len(ProgressOf(job_status_dict, j))
      ]_vars

\* A record created by an update that appended its first entry, after two
\* further calls.
C3_Witness ==
    /\ "j1" \in DOMAIN job_status_dict
    /\ Len(job_status_dict["j1"]["progress"]) >= 1
    /\ job_status_dict["j1"]["progress"][1]["timestamp"] = job_status_dict["j1"]["created_at"]
    /\ now >= job_status_dict["j1"]["created_at"] + 3
    /\ call = NoCall

OptionalKeys == {"output", "error", "usage"}

\* What one update with these arguments, made at time t, does to the record
\* of job_id: d is the ledger before it and d2 the ledger after it.
UpdateEffect(d, d2, job_id, status, stage, message, given, t) ==
    /\ job_id \in DOMAIN d2
    /\ d2[job_id]["status"] = status
    /\ d2[job_id]["updated_at"] = t
    /\ IF Truthy(stage) /\ Truthy(message)
       THEN /\ Len(d2[job_id]["progress"]) = Len(ProgressOf(d, job_id)) + 1
            /\ IsPrefix(ProgressOf(d, job_id), d2[job_id]["progress"])
            /\ d2[job_id]["progress"][Len(d2[job_id]["progress"])] =
                   [stage |-> stage[1], message |-> message[1], timestamp |-> t]
       ELSE d2[job_id]["progress"] = ProgressOf(d, job_id)
    /\ \A k \in OptionalKeys :
          IF given[k] # None
          THEN k \in DOMAIN d2[job_id] /\ d2[job_id][k] = given[k][1]
          ELSE IF job_id \in DOMAIN d /\ k \in DOMAIN d[job_id]
               THEN k \in DOMAIN d2[job_id] /\ d2[job_id][k] = d[job_id][k]
               ELSE k \notin DOMAIN d2[job_id]
    /\ d2[job_id]["job_id"] = job_id
    /\ job_id \in DOMAIN d =>
          /\ d2[job_id]["created_at"] = d[job_id]["created_at"]
          /\ DOMAIN d[job_id] \subseteq DOMAIN d2[job_id]
    /\ job_id \notin DOMAIN d => d2[job_id]["created_at"] = t
    /\ DOMAIN d2[job_id] \subseteq
          {"job_id", "status", "progress", "created_at", "updated_at"} \cup OptionalKeys
    /\ \A other \in DOMAIN d \ {job_id} : other \in DOMAIN d2 /\ d2[other] = d[other]

\* C4: update_job_status overwrites status and updated_at, appends exactly
\* one ProgressEvent if and only if both stage and message are given (by the
\* code's test: neither None nor empty), replaces output, error and usage each
\* only when that argument is given (not None), and leaves every other field
\* of an existing record unchanged; send_completion is that update without a
\* stage or message, so that k progress updates followed by a completion
\* with an output yield that status, a progress list of length k and that
\* output.
C4_UpdateFrame ==
    [][ /\ Runs("update_job_status") =>
              UpdateEffect(job_status_dict, job_status_dict', call.job_id[1], call.status,
                           call.stage, call.message, call, now)
        /\ (Runs("send_completion") /\ Truthy(call.job_id)) =>
              UpdateEffect(job_status_dict, job_status_dict', call.job_id[1], call.status,
                           None, None, call, now)
        /\ (Runs("send_completion") /\ ~Truthy(call.job_id)) =>
              job_status_dict' = job_status_dict
      ]_vars

\* Two progress updates followed by a completion carrying an output.
C4_Witness ==
    /\ "j1" \in DOMAIN job_status_dict
    /\ job_status_dict["j1"]["status"] = "completed"
    /\ Len(job_status_dict["j1"]["progress"]) = 2
    /\ job_status_dict["j1"]["updated_at"] = 2
    /\ "output" \in DOMAIN job_status_dict["j1"]
    /\ job_status_dict["j1"]["output"] = "out1"
    /\ "error" \notin DOMAIN job_status_dict["j1"]
    /\ call = NoCall

(***************************************************************************)
(* SpecBoltzgen: run_boltzgen under modal.Retries, its main thread, the    *)
(* progress_monitor thread and handle_sigterm, all writing the ledger      *)
(* record of one job_id.  A ledger call is two steps, the read of the      *)
(* stored record and the write of the modified one; the steps of the       *)
(* threads interleave.                                                     *)
(***************************************************************************)

max_retries == 3
num_designs == 100
budget == 10

\* Model bounds: output lines read, monitor polls and SIGTERMs over a run.
MaxLines == 1
MaxPolls == 1
MaxSigterm == 1

BzJobId == "j1"
BzGpuType == "A100"

\* A line is its lower-cased words; a pattern is its alternatives, each a
\* word sequence that re.search(pattern, line, re.IGNORECASE) finds in it.
Contains(line, alt) ==
    \E i \in 1..(Len(line) - Len(alt) + 1) : SubSeq(line, i, i + Len(alt) - 1) = alt

stage_patterns == <<
    [pattern |-> {<<"running", "diffusion">>},
     stage |-> "design", message |-> "Running diffusion backbone generation"],
    [pattern |-> {<<"diffusion", "complete">>, <<"generated", "<n>", "designs">>},
     stage |-> "design",
     message |-> "Backbone diffusion complete (" \o ToString(num_designs) \o " designs)"],
    [pattern |-> {<<"running", "inverse", "folding">>, <<"proteinmpnn">>},
     stage |-> "inverse_folding", message |-> "Running inverse folding (ProteinMPNN)"],
    [pattern |-> {<<"inverse", "folding", "complete">>},
     stage |-> "inverse_folding", message |-> "Inverse folding complete"],
    [pattern |-> {<<"running", "folding">>, <<"boltz">>},
     stage |-> "folding", message |-> "Running structure prediction (Boltz-2)"],
    [pattern |-> {<<"folding", "complete">>, <<"predicted", "<n>", "structures">>},
     stage |-> "folding", message |-> "Structure prediction complete"],
    [pattern |-> {<<"computing", "metrics">>, <<"analyzing">>},
     stage |-> "analysis", message |-> "Computing design metrics"],
    [pattern |-> {<<"filtering">>, <<"ranking">>, <<"selecting">>},
     stage |-> "filtering",
     message |-> "Filtering and ranking (selecting top " \o ToString(budget) \o ")"],
    [pattern |-> {<<"final", "designs", "selected">>, <<"writing", "final">>},
     stage |-> "filtering", message |-> "Selected " \o ToString(budget) \o " final designs"]
>>

Matches(rule, line) == \E alt \in rule.pattern : Contains(line, alt)

\* The first rule, in list order, whose pattern matches the line (0: none):
\* the loop breaks at it whether or not its stage key was reported before.
FirstMatch(line) ==
    IF \E i \in 1..Len(stage_patterns) : Matches(stage_patterns[i], line)
    THEN CHOOSE i \in 1..Len(stage_patterns) :
            /\ Matches(stage_patterns[i], line)
            /\ \A k \in 1..(i - 1) : ~Matches(stage_patterns[k], line)
    ELSE 0

stage_key(rule) == rule.stage \o ":" \o rule.message

\* Output lines of the external tool.
Lines == {<<"running", "diffusion">>, <<"step", "done">>}

stage_labels ==
    [design |-> "Diffusion", inverse_folding |-> "Inverse folding",
     folding |-> "Structure prediction", filtering |-> "Final designs"]

\* count_designs_in_stage(): None, or the most advanced stage with files.
CountResults == {None, Some([stage_name |-> "design", count |-> 1, total |-> num_designs])}

Args(status, stage, message, output, error, usage) ==
    [status |-> status, stage |-> stage, message |-> message, output |-> output,
     error |-> error, usage |-> usage]

Progress(stage, message) == Args("running", Some(stage), Some(message), None, None, None)

BzOutput == "boltzgen output"
BzError == "BoltzGen failed with exit code 1. Log snippet: ..."

\* The ledger call the main thread of run_boltzgen makes at each position.
MainCall ==
    CASE pc = "init" ->
            Progress("init", IF output_dir_exists THEN "Resuming BoltzGen pipeline..."
                             ELSE "Initializing BoltzGen pipeline")
      [] pc = "target" ->
            Progress("init", IF target_exists THEN "Using cached target structure"
                             ELSE "Downloading target structure")
      [] pc = "design" ->
            Progress("design", (IF output_dir_exists THEN "Resuming" ELSE "Starting")
                               \o " BoltzGen (" \o ToString(num_designs) \o " designs, budget "
                               \o ToString(budget) \o ")")
      [] pc = "scan" -> Progress(pending_event[1].stage, pending_event[1].message)
      [] pc = "heartbeat" -> Progress("processing", "Pipeline running...")
      [] pc = "failed" -> Args("failed", None, None, None, Some(BzError), None)
      [] pc = "parse" -> Progress("processing", "Parsing design results")
      [] pc = "upload" -> Progress("upload", "Uploading designs to storage")
      [] pc = "complete" -> Progress("complete", "Pipeline complete!")
      [] pc = "completion" ->
            Args("completed", None, None, Some(BzOutput), None,
                 Some([gpu_type |-> BzGpuType, execution_seconds |-> 0]))

LedgerCallPositions ==
    {"init", "target", "design", "scan", "heartbeat", "failed", "parse", "upload",
     "complete", "completion"}

\* Where the main thread goes after the ledger call made at a position.
AfterCall ==
    CASE pc = "init" -> "target"
      [] pc = "target" -> "design"
      [] pc = "design" -> "run"
      [] pc = "scan" -> "lines"
      [] pc = "heartbeat" -> "lines"
      [] pc = "failed" -> "raise"
      [] pc = "parse" -> "upload"
      [] pc = "upload" -> "complete"
      [] pc = "complete" -> "completion"
      [] pc = "completion" -> "cleanup"

HandlerRunning == handler_existing # None

InitBoltzgen ==
    /\ job_status_dict = EmptyDict
    /\ now = 0
    /\ call = NoCall
    /\ BzIdle
    /\ ExtIdle
    /\ MoIdle

\* The platform starts the first attempt of run_boltzgen(job_id = BzJobId).
StartAttempt ==
    /\ pc = "idle"
    /\ pc' = "init"
    /\ UNCHANGED <<moVars, extVars, ledgerVars, call, attempt, main_existing, pending_event, reported_stages,
                   return_code, stop_progress_monitor, monitor_pc, monitor_existing,
                   monitor_event, last_design_counts, target_exists, output_dir_exists,
                   preempted, handler_existing, n_lines, n_polls, n_sigterm, error_writes,
                   output_writes>>

\* update_job_status line 31, reached from send_progress or send_completion.
MainRead ==
    /\ pc \in LedgerCallPositions
    /\ main_existing = None
    /\ ~HandlerRunning
    /\ main_existing' = Some(ReadExisting(job_status_dict, BzJobId, "pending", now))
    /\ UNCHANGED <<moVars, extVars, ledgerVars, call, attempt, pc, pending_event, reported_stages, return_code,
                   stop_progress_monitor, monitor_pc, monitor_existing, monitor_event,
                   last_design_counts, target_exists, output_dir_exists, preempted,
                   handler_existing, n_lines, n_polls, n_sigterm, error_writes, output_writes>>

\* update_job_status lines 38-55; download_to_path follows the call at "target".
MainWrite ==
    /\ pc \in LedgerCallPositions
    /\ main_existing # None
    /\ ~HandlerRunning
    /\ job_status_dict' =
          StoreRecord(job_status_dict, BzJobId,
              ModifyRecord(main_existing[1], MainCall.status, MainCall.stage, MainCall.message,
                           MainCall.output, MainCall.error, MainCall.usage, now))
    /\ main_existing' = None
    /\ pc' = AfterCall
    /\ pending_event' = None
    /\ target_exists' = (target_exists \/ pc = "target")
    /\ error_writes' = error_writes + (IF MainCall.error # None THEN 1 ELSE 0)
    /\ output_writes' = output_writes + (IF MainCall.output # None THEN 1 ELSE 0)
    /\ UNCHANGED <<moVars, extVars, now, call, attempt, reported_stages, return_code, stop_progress_monitor,
                   monitor_pc, monitor_existing, monitor_event, last_design_counts,
                   output_dir_exists, preempted, handler_existing, n_lines, n_polls, n_sigterm>>

\* run_boltzgen_with_progress lines 241-326: the monitor thread is started
\* and the subprocess spawned; the tool creates its output directory.
StartRun ==
    /\ pc = "run"
    /\ ~HandlerRunning
    /\ pc' = "lines"
    /\ reported_stages' = {}
    /\ last_design_counts' = EmptyDict
    /\ stop_progress_monitor' = FALSE
    /\ monitor_pc' = "wait"
    /\ monitor_existing' = None
    /\ monitor_event' = None
    /\ return_code' = None
    /\ output_dir_exists' = TRUE
    /\ UNCHANGED <<moVars, extVars, ledgerVars, call, attempt, main_existing, pending_event, target_exists,
                   preempted, handler_existing, n_lines, n_polls, n_sigterm, error_writes,
                   output_writes>>

\* One iteration of "for line in process.stdout" up to the ledger call of
\* check_line_for_progress, if it makes one.  Whether more than 60 s have
\* passed since last_progress_time is the environment's choice here.
ReadLine ==
    /\ pc = "lines"
    /\ ~HandlerRunning
    /\ n_lines < MaxLines
    /\ n_lines' = n_lines + 1
    /\ \E line \in Lines, late \in BOOLEAN :
          IF FirstMatch(line) # 0
             /\ stage_key(stage_patterns[FirstMatch(line)]) \notin reported_stages
          THEN /\ reported_stages' =
                     reported_stages \cup {stage_key(stage_patterns[FirstMatch(line)])}
               /\ pending_event' = Some([stage |-> stage_patterns[FirstMatch(line)].stage,
                                         message |-> stage_patterns[FirstMatch(line)].message])
               /\ pc' = "scan"
          ELSE /\ pc' = (IF late THEN "heartbeat" ELSE "lines")
               /\ UNCHANGED <<reported_stages, pending_event>>
    /\ UNCHANGED <<moVars, extVars, ledgerVars, call, attempt, main_existing, return_code, stop_progress_monitor,
                   monitor_pc, monitor_existing, monitor_event, last_design_counts,
                   target_exists, output_dir_exists, preempted, handler_existing, n_polls,
                   n_sigterm, error_writes, output_writes>>

\* The output ends and process.wait() returns; the finally block sets the
\* stop event and joins the monitor for at most 2 s.
ProcessExit ==
    /\ pc = "lines"
    /\ ~HandlerRunning
    /\ \E rc \in {0, 1} :
          /\ return_code' = Some(rc)
          /\ pc' = (IF rc # 0 THEN "failed" ELSE "parse")
    /\ stop_progress_monitor' = TRUE
    /\ UNCHANGED <<moVars, extVars, ledgerVars, call, attempt, main_existing, pending_event, reported_stages,
                   monitor_pc, monitor_existing, monitor_event, last_design_counts,
                   target_exists, output_dir_exists, preempted, handler_existing, n_lines,
                   n_polls, n_sigterm, error_writes, output_writes>>

\* "raise" at line 556: the attempt ends with RuntimeError and modal.Retries
\* runs the function again while retries are left.
RaiseAndRetry ==
    /\ pc = "raise"
    /\ ~HandlerRunning
    /\ IF attempt < max_retries
       THEN /\ attempt' = attempt + 1
            /\ pc' = "init"
            /\ now' = now + 1
       ELSE /\ pc' = "exhausted"
            /\ UNCHANGED <<attempt, now>>
    /\ monitor_pc' = "off"
    /\ monitor_existing' = None
    /\ monitor_event' = None
    /\ preempted' = FALSE
    /\ UNCHANGED <<moVars, extVars, job_status_dict, call, main_existing, pending_event, reported_stages,
                   return_code, stop_progress_monitor, last_design_counts, target_exists,
                   output_dir_exists, handler_existing, n_lines, n_polls, n_sigterm,
                   error_writes, output_writes>>

\* shutil.rmtree(work_dir) and return output.
CleanupAndReturn ==
    /\ pc = "cleanup"
    /\ ~HandlerRunning
    /\ pc' = "done"
    /\ target_exists' = FALSE
    /\ output_dir_exists' = FALSE
    /\ UNCHANGED <<moVars, extVars, ledgerVars, call, attempt, main_existing, pending_event, reported_stages,
                   return_code, stop_progress_monitor, monitor_pc, monitor_existing,
                   monitor_event, last_design_counts, preempted, handler_existing, n_lines,
                   n_polls, n_sigterm, error_writes, output_writes>>

\* progress_monitor: stop_progress_monitor.wait(timeout=30) returns False.
MonitorWake ==
    /\ monitor_pc = "wait"
    /\ ~stop_progress_monitor
    /\ n_polls < MaxPolls
    /\ n_polls' = n_polls + 1
    /\ monitor_pc' = "usage"
    /\ UNCHANGED <<moVars, extVars, ledgerVars, call, attempt, pc, main_existing, pending_event, reported_stages,
                   return_code, stop_progress_monitor, monitor_existing, monitor_event,
                   last_design_counts, target_exists, output_dir_exists, preempted,
                   handler_existing, n_lines, n_sigterm, error_writes, output_writes>>

\* progress_monitor: the wait returns True and the thread ends.
MonitorStop ==
    /\ monitor_pc = "wait"
    /\ stop_progress_monitor
    /\ monitor_pc' = "exited"
    /\ UNCHANGED <<moVars, extVars, ledgerVars, call, attempt, pc, main_existing, pending_event, reported_stages,
                   return_code, stop_progress_monitor, monitor_existing, monitor_event,
                   last_design_counts, target_exists, output_dir_exists, preempted,
                   handler_existing, n_lines, n_polls, n_sigterm, error_writes, output_writes>>

\* send_usage_update lines 79-84.
MonitorUsageRead ==
    /\ monitor_pc = "usage"
    /\ monitor_existing = None
    /\ monitor_existing' = Some(ReadExisting(job_status_dict, BzJobId, "running", now))
    /\ UNCHANGED <<moVars, extVars, ledgerVars, call, attempt, pc, main_existing, pending_event, reported_stages,
                   return_code, stop_progress_monitor, monitor_pc, monitor_event,
                   last_design_counts, target_exists, output_dir_exists, preempted,
                   handler_existing, n_lines, n_polls, n_sigterm, error_writes, output_writes>>

\* send_usage_update lines 87-94.
MonitorUsageWrite ==
    /\ monitor_pc = "usage"
    /\ monitor_existing # None
    /\ job_status_dict' =
          StoreRecord(job_status_dict, BzJobId,
                      ModifyUsage(monitor_existing[1], BzGpuType, 0, now))
    /\ monitor_existing' = None
    /\ monitor_pc' = "count"
    /\ UNCHANGED <<moVars, extVars, now, call, attempt, pc, main_existing, pending_event, reported_stages,
                   return_code, stop_progress_monitor, monitor_event, last_design_counts,
                   target_exists, output_dir_exists, preempted, handler_existing, n_lines,
                   n_polls, n_sigterm, error_writes, output_writes>>

\* progress_monitor lines 278-291 up to the call of send_progress.
MonitorCount ==
    /\ monitor_pc = "count"
    /\ \E result \in CountResults :
          IF result # None
             /\ ( result[1].stage_name \notin DOMAIN last_design_counts
                  \/ last_design_counts[result[1].stage_name] # result[1].count )
          THEN /\ last_design_counts' =
                     SetKey(last_design_counts, result[1].stage_name, result[1].count)
               /\ monitor_event' =
                     Some([stage |-> result[1].stage_name,
                           message |-> stage_labels[result[1].stage_name] \o ": "
                                       \o ToString(result[1].count) \o "/"
                                       \o ToString(result[1].total) \o " complete"])
               /\ monitor_pc' = "progress"
          ELSE /\ monitor_pc' = "wait"
               /\ UNCHANGED <<last_design_counts, monitor_event>>
    /\ UNCHANGED <<moVars, extVars, ledgerVars, call, attempt, pc, main_existing, pending_event, reported_stages,
                   return_code, stop_progress_monitor, monitor_existing, target_exists,
                   output_dir_exists, preempted, handler_existing, n_lines, n_polls, n_sigterm,
                   error_writes, output_writes>>

\* send_progress of the monitor: update_job_status line 31.
MonitorProgressRead ==
    /\ monitor_pc = "progress"
    /\ monitor_existing = None
    /\ monitor_existing' = Some(ReadExisting(job_status_dict, BzJobId, "pending", now))
    /\ UNCHANGED <<moVars, extVars, ledgerVars, call, attempt, pc, main_existing, pending_event, reported_stages,
                   return_code, stop_progress_monitor, monitor_pc, monitor_event,
                   last_design_counts, target_exists, output_dir_exists, preempted,
                   handler_existing, n_lines, n_polls, n_sigterm, error_writes, output_writes>>

\* send_progress of the monitor: update_job_status lines 38-55.
MonitorProgressWrite ==
    /\ monitor_pc = "progress"
    /\ monitor_existing # None
    /\ job_status_dict' =
          StoreRecord(job_status_dict, BzJobId,
              ModifyRecord(monitor_existing[1], "running", Some(monitor_event[1].stage),
                           Some(monitor_event[1].message), None, None, None, now))
    /\ monitor_existing' = None
    /\ monitor_event' = None
    /\ monitor_pc' = "wait"
    /\ UNCHANGED <<moVars, extVars, now, call, attempt, pc, main_existing, pending_event, reported_stages,
                   return_code, stop_progress_monitor, last_design_counts, target_exists,
                   output_dir_exists, preempted, handler_existing, n_lines, n_polls, n_sigterm,
                   error_writes, output_writes>>

AttemptRunning == pc \notin {"idle", "done", "exhausted"}

\* SIGTERM: handle_sigterm interrupts the main thread, sets preempted and
\* enters send_progress (update_job_status line 31).
SigtermRead ==
    /\ AttemptRunning
    /\ ~HandlerRunning
    /\ n_sigterm < MaxSigterm
    /\ n_sigterm' = n_sigterm + 1
    /\ preempted' = TRUE
    /\ handler_existing' = Some(ReadExisting(job_status_dict, BzJobId, "pending", now))
    /\ UNCHANGED <<moVars, extVars, ledgerVars, call, attempt, pc, main_existing, pending_event, reported_stages,
                   return_code, stop_progress_monitor, monitor_pc, monitor_existing,
                   monitor_event, last_design_counts, target_exists, output_dir_exists, n_lines,
                   n_polls, error_writes, output_writes>>

\* handle_sigterm: update_job_status lines 38-55, then the volume commit and
\* the return to the interrupted main thread.
SigtermWrite ==
    /\ HandlerRunning
    /\ job_status_dict' =
          StoreRecord(job_status_dict, BzJobId,
              ModifyRecord(handler_existing[1], "running", Some("processing"),
                           Some("Preemption detected, saving state..."), None, None, None, now))
    /\ handler_existing' = None
    /\ UNCHANGED <<moVars, extVars, now, call, attempt, pc, main_existing, pending_event, reported_stages,
                   return_code, stop_progress_monitor, monitor_pc, monitor_existing,
                   monitor_event, last_design_counts, target_exists, output_dir_exists,
                   preempted, n_lines, n_polls, n_sigterm, error_writes, output_writes>>

NextBoltzgen ==
    \/ StartAttempt \/ MainRead \/ MainWrite \/ StartRun \/ ReadLine \/ ProcessExit
    \/ RaiseAndRetry \/ CleanupAndReturn
    \/ MonitorWake \/ MonitorStop \/ MonitorUsageRead \/ MonitorUsageWrite \/ MonitorCount
    \/ MonitorProgressRead \/ MonitorProgressWrite
    \/ SigtermRead \/ SigtermWrite

SpecBoltzgen == InitBoltzgen /\ [][NextBoltzgen]_vars

\* C1: once the status of a job is completed or failed, no later step of any
\* writer (a retried attempt, the monitor thread, handle_sigterm) stores a
\* different status for it.
C1_TerminalStatusIsFinal ==
    [][ \A j \in DOMAIN job_status_dict :
           job_status_dict[j]["status"] \in {"completed", "failed"} =>
              /\ j \in DOMAIN job_status_dict'
              /\ job_status_dict'[j]["status"] = job_status_dict[j]["status"]
      ]_vars

\* C2: under every interleaving of the read and write steps of the main
\* thread and the monitor thread, each stored progress list is a prefix of
\* every progress list stored later for the same job (steps of behaviours in
\* which handle_sigterm has not run).
C2_ProgressIsAppendOnly ==
    [][ n_sigterm' = 0 =>
           \A j \in DOMAIN job_status_dict :
              /\ j \in DOMAIN job_status_dict'
              /\ IsPrefix(job_status_dict[j]["progress"], job_status_dict'[j]["progress"])
      ]_vars

\* C5: over all attempts of a job, at most one ledger update carries an
\* output and at most one carries an error.
C5_OutputAndErrorWrittenOnce == error_writes <= 1 /\ output_writes <= 1

(***************************************************************************)
(* SpecMosaic: run_mosaic_boltz2 under modal.Retries, with its             *)
(* PreemptionManager, the SIGTERM handler and the platform killing the     *)
(* container.                                                              *)
(***************************************************************************)
mosaic_max_retries == 3
MaxKills == 1

\* The n_steps, sharpen_steps and chunk_size arguments of the calls explored.
MosaicArgs ==
    {[n_steps |-> 3, sharpen_steps |-> 1, chunk_size |-> 2, seed |-> None],
     [n_steps |-> 1, sharpen_steps |-> 2, chunk_size |-> 1, seed |-> Some(7)],
     [n_steps |-> 1, sharpen_steps |-> 0, chunk_size |-> 1, seed |-> None]}

\* The values of the objective on the candidates of the jobs explored.
Losses == {1, 2}

\* seed if seed is not None else int(time.time() * 1000) % 2**31, at time t
\* in seconds since the job started; the times explored stay below 2**31 ms,
\* where the reduction leaves the value as it is.
SeedValue(seed_arg, t) == IF seed_arg # None THEN seed_arg[1] ELSE t * 1000

\* The variables added for the candidates, grouped as the actions leave them
\* unchanged.
optArgs == <<seed, loss_domain>>
optAttempt == <<seed_value, soft_sequence, best_sequence>>
optPhase == <<current, best, best_loss>>
optHistory == <<observed_losses, seeds_used, last_write>>
MoJobId == "j1"
MoGpuType == "A100_40GB"
MoOutput == "mosaic output"

Min(a, b) == IF a <= b THEN a ELSE b
Max(a, b) == IF a >= b THEN a ELSE b

\* json.dumps of the checkpoint payload: the members in insertion order.
CheckpointKeys ==
    <<"phase", "steps_completed", "seed", "soft_sequence_path", "best_sequence_path">>

\* The members whose values are ints; the others are strings.
IntKeys == {"steps_completed", "seed"}

RECURSIVE Digits(_)
LastDigit(n) == <<n % 10>>

\* The decimal digits json.dumps writes for a non-negative int.
Digits(n) == IF n < 10 THEN <<n>> ELSE Append(Digits(n \div 10), n % 10)

RECURSIVE FromDigits(_)
\* The int json.loads reads from decimal digits.
FromDigits(ds) ==
    IF Len(ds) = 0 THEN 0 ELSE FromDigits(SubSeq(ds, 1, Len(ds) - 1)) * 10 + ds[Len(ds)]

\* A member's value as a JSON token: a number or a string.
JsonToken(key, value) ==
    IF key \in IntKeys THEN [number |-> Digits(value)] ELSE [string |-> value]

JsonValue(token) ==
    IF "number" \in DOMAIN token THEN FromDigits(token.number) ELSE token.string

json_dumps(state) ==
    LET keys == SelectSeq(CheckpointKeys, LAMBDA k : k \in DOMAIN state)
    IN [i \in 1..Len(keys) |-> <<keys[i], JsonToken(keys[i], state[keys[i]])>>]

json_loads(text) ==
    [k \in {text[i][1] : i \in DOMAIN text} |->
        JsonValue(text[CHOOSE i \in DOMAIN text : text[i][1] = k][2])]

\* PreemptionManager.load_state
load_state(dir) == IF dir.checkpoint = None THEN None ELSE Some(json_loads(dir.checkpoint[1]))

\* PreemptionManager.save_state, before its adapter.commit()
save_state(dir, state) == [dir EXCEPT !.checkpoint = Some(json_dumps(state))]

\* PreemptionManager.clear_state
clear_state(dir) == [dir EXCEPT !.checkpoint = None]

\* The payload save_checkpoint hands to save_state.
CheckpointPayload(phase_arg, steps_arg, seed_arg) ==
    [phase |-> phase_arg, steps_completed |-> steps_arg, seed |-> seed_arg,
     soft_sequence_path |-> phase_arg \o "_soft.npy",
     best_sequence_path |-> phase_arg \o "_best.npy"]

\* np.load of the path the state names under key, None when the state has no
\* such key or the file does not exist.
LoadArray(dir, state, key) ==
    IF key \in DOMAIN state /\ state[key] \in DOMAIN dir.arrays
    THEN Some(dir.arrays[state[key]])
    ELSE None

\* np.save(path, array)
SaveArray(dir, path, array) == [dir EXCEPT !.arrays = SetKey(@, path, array)]

KeepFirstBest(loss_value, loss_of_best) == loss_of_best = None

\* if best_loss is None or loss_value < best_loss
ReplacesBest(loss_value, loss_of_best) == loss_of_best = None \/ loss_value < loss_of_best[1]

\* state.get(key)
StateGet(state, key) == IF key \in DOMAIN state THEN Some(state[key]) ELSE None

StartStepsZero(name, phase_local, completed_local) == 0

\* start_steps = completed_steps if phase == <name> else 0
StartSteps(name, phase_local, completed_local) ==
    IF phase_local = Some(name) THEN completed_local ELSE 0

StepsThisUnclipped(chunk, total, done) == chunk

\* steps_this = min(chunk_size, total_steps - steps_completed)
StepsThis(chunk, total, done) == Min(chunk, total - done)

PreemptionReportedFailed == Args("failed", None, None, None, Some("Preemption requested"), None)

\* The except PreemptionRequested handler's ledger call.
PreemptionCheckpointSaved == Progress("processing", "Preemption checkpoint saved; retrying job")

\* The ledger call run_mosaic_boltz2 makes at each position.
MoCall ==
    CASE mo_pc = "init1" -> Progress("init", "Initializing Mosaic Boltz2 pipeline")
      [] mo_pc = "init2" -> Progress("init", "Ensuring Boltz-2 cache is available")
      [] mo_pc = "download" -> Progress("init", "Downloading target structure")
      [] mo_pc = "chains" -> Progress("init", "Using 1 target chain(s)")
      [] mo_pc = "coarse_msg" -> Progress("optimize", "Running coarse optimization")
      [] mo_pc = "sharpen_msg" -> Progress("optimize", "Running sharpening optimization")
      [] mo_pc = "preempt_msg" -> PreemptionCheckpointSaved
      [] mo_pc = "predict_msg" ->
            Progress("predict", "Running Boltz2 prediction on optimized sequence")
      [] mo_pc = "complete_msg" -> Progress("complete", "Mosaic Boltz2 pipeline complete")
      [] mo_pc = "completion" ->
            Args("completed", None, None, Some(MoOutput), None,
                 Some([gpu_type |-> MoGpuType, execution_seconds |-> 0]))

MoLedgerPositions ==
    {"init1", "init2", "download", "chains", "coarse_msg", "sharpen_msg", "preempt_msg",
     "predict_msg", "complete_msg", "completion"}

\* Where run_mosaic_boltz2 goes after the ledger call made at a position.
MoAfterCall ==
    CASE mo_pc = "init1" -> "init2"
      [] mo_pc = "init2" -> IF work_dir.target THEN "chains" ELSE "download"
      [] mo_pc = "download" -> "chains"
      [] mo_pc = "chains" -> "load"
      [] mo_pc = "coarse_msg" -> "run_coarse"
      [] mo_pc = "sharpen_msg" -> "run_sharpen"
      [] mo_pc = "preempt_msg" -> "raise"
      [] mo_pc = "predict_msg" -> "upload"
      [] mo_pc = "complete_msg" -> "completion"
      [] mo_pc = "completion" -> "return"

RunsCoarseAlways(phase_local) == TRUE

\* if phase not in ("sharpen", "completed")
RunsCoarse(phase_local) == phase_local \notin {Some("sharpen"), Some("completed")}

\* The statement after the coarse block: the sharpen block or the prediction.
AfterCoarse(phase_local) ==
    IF sharpen_steps > 0 /\ phase_local # Some("completed") THEN "sharpen_msg" ELSE "predict_msg"

MoAttemptRunning == mo_pc \notin {"idle", "done", "exhausted"}

\* run_mosaic_boltz2 not yet called for a job whose objective takes its
\* values in domain.
InitJob(domain) ==
    /\ job_status_dict = EmptyDict
    /\ now = 0
    /\ call = NoCall
    /\ BzIdle
    /\ ExtIdle
    /\ \E args \in MosaicArgs :
          /\ n_steps = args.n_steps
          /\ sharpen_steps = args.sharpen_steps
          /\ chunk_size = args.chunk_size
          /\ seed = args.seed
    /\ loss_domain = domain
    /\ seed_value = 0
    /\ observed_losses = {}
    /\ seeds_used = {}
    /\ last_write = NoSteps
    /\ mo_attempt = 0
    /\ kills = 0
    /\ mo_pc = "idle"
    /\ work_dir = EmptyDir
    /\ committed_dir = EmptyDir
    /\ executed_ever = NoSteps
    /\ executed_before = NoSteps
    /\ ended_at = ""
    /\ MoAttemptLocals

\* The jobs of SpecMosaic: every candidate has the same objective value.
InitMosaic == InitJob({1})

\* The jobs of SpecOptimizer: the objective differs between candidates.
InitOptimizer == InitJob(Losses)

\* A new container, or the same one, runs run_mosaic_boltz2 from its first
\* statement: PreemptionManager.__post_init__ and the locals.
BeginAttempt ==
    /\ mo_pc' = "init1"
    /\ now' = now + 1
    /\ mo_preempted' = FALSE
    /\ sigterm_sent' = FALSE
    /\ sigterm_at' = None
    /\ exception' = None
    /\ phase' = None
    /\ completed_steps' = 0
    /\ phase_name' = ""
    /\ start_steps' = 0
    /\ total_steps' = 0
    /\ steps_completed' = 0
    /\ steps_this' = 0
    /\ chunk_steps_done' = 0
    /\ loaded_state' = None
    /\ steps_executed' = NoSteps
    /\ phases_returned' = {}
    /\ checkpoint_writes' = <<>>
    /\ reexecuted' = 0
    /\ executed_before' = executed_ever
    /\ ended_at' = mo_pc
    /\ seed_value' = SeedValue(seed, now + 1)
    /\ soft_sequence' = None
    /\ best_sequence' = None
    /\ current' = None
    /\ best' = None
    /\ best_loss' = None

\* The platform calls run_mosaic_boltz2(job_id = MoJobId).
MoStart ==
    /\ mo_pc = "idle"
    /\ mo_pc' = "init1"
    /\ seed_value' = SeedValue(seed, now)
    /\ UNCHANGED <<optArgs, soft_sequence, best_sequence, optPhase, optHistory, ledgerVars, call, bzVars, extVars, ended_at, n_steps, sharpen_steps, chunk_size, mo_attempt,
                   kills, mo_preempted, sigterm_sent, sigterm_at, exception, work_dir,
                   committed_dir, phase, completed_steps, phase_name, start_steps, total_steps,
                   steps_completed, steps_this, chunk_steps_done, loaded_state, steps_executed,
                   phases_returned, checkpoint_writes, executed_ever, executed_before,
                   reexecuted>>

\* The send_progress or send_completion call at the current position, run
\* by the attempt's only thread; download_to_path follows the call at
\* "download".
MoLedgerCall ==
    /\ mo_pc \in MoLedgerPositions
    /\ job_status_dict' =
          update_job_status(job_status_dict, MoJobId, MoCall.status, MoCall.stage,
                            MoCall.message, MoCall.output, MoCall.error, MoCall.usage, now)
    /\ mo_pc' = MoAfterCall
    /\ work_dir' = [work_dir EXCEPT !.target = @ \/ mo_pc = "download"]
    /\ UNCHANGED <<optArgs, optAttempt, optPhase, optHistory, now, call, bzVars, extVars, ended_at, n_steps, sharpen_steps, chunk_size, mo_attempt,
                   kills, mo_preempted, sigterm_sent, sigterm_at, exception,
                   committed_dir, phase, completed_steps, phase_name, start_steps, total_steps,
                   steps_completed, steps_this, chunk_steps_done, loaded_state, steps_executed,
                   phases_returned, checkpoint_writes, executed_ever, executed_before,
                   reexecuted>>

\* Lines 337-339: state = preemption.load_state() or {}, phase and
\* completed_steps; then the test at line 402.
LoadState ==
    /\ mo_pc = "load"
    /\ LET state == IF load_state(work_dir) = None THEN EmptyDict ELSE load_state(work_dir)[1]
           steps == StateGet(state, "steps_completed")
           soft == LoadArray(work_dir, state, "soft_sequence_path")
           loaded_soft == IF soft = None THEN Some(SeededCandidate) ELSE soft
       IN /\ loaded_state' = load_state(work_dir)
          /\ soft_sequence' = loaded_soft
          /\ best_sequence' = IF LoadArray(work_dir, state, "best_sequence_path") = None
                              THEN loaded_soft
                              ELSE LoadArray(work_dir, state, "best_sequence_path")
          /\ phase' = StateGet(state, "phase")
          /\ completed_steps' = IF steps = None THEN 0 ELSE steps[1]
          /\ mo_pc' = IF RunsCoarse(StateGet(state, "phase"))
                      THEN "coarse_msg"
                      ELSE AfterCoarse(StateGet(state, "phase"))
    /\ UNCHANGED <<optArgs, seed_value, optPhase, optHistory, job_status_dict, now, call, bzVars, extVars, ended_at, n_steps, sharpen_steps, chunk_size,
                   mo_attempt, kills, mo_preempted, sigterm_sent, sigterm_at, exception,
                   work_dir, committed_dir, phase_name, start_steps, total_steps,
                   steps_completed, steps_this, chunk_steps_done, steps_executed,
                   phases_returned, checkpoint_writes, executed_ever, executed_before,
                   reexecuted>>
InitialFromBest(name, phase_local, soft, best_of_previous) == best_of_previous

\* initial_sequence of the run_phase call: soft_sequence for the coarse phase
\* (line 410), soft_sequence if phase == "sharpen" else best_sequence for the
\* sharpen phase (line 416).
InitialSequence(name, phase_local, soft, best_of_previous) ==
    IF name = "coarse" \/ phase_local = Some("sharpen") THEN soft ELSE best_of_previous

\* The call of run_phase at line 404 or 417 up to its while loop.
RunPhase ==
    /\ mo_pc \in {"run_coarse", "run_sharpen"}
    /\ LET name == IF mo_pc = "run_coarse" THEN "coarse" ELSE "sharpen"
       IN /\ phase_name' = name
          /\ start_steps' = StartSteps(name, phase, completed_steps)
          /\ total_steps' = IF name = "coarse" THEN n_steps ELSE sharpen_steps
          /\ steps_completed' = StartSteps(name, phase, completed_steps)
          /\ current' = InitialSequence(name, phase, soft_sequence, best_sequence)
    /\ best' = best_sequence
    /\ best_loss' = None
    /\ checkpoint_writes' = <<>>
    /\ mo_pc' = "loop"
    /\ UNCHANGED <<optArgs, optAttempt, optHistory, job_status_dict, now, call, bzVars, extVars, ended_at, n_steps, sharpen_steps, chunk_size,
                   mo_attempt, kills, mo_preempted, sigterm_sent, sigterm_at, exception,
                   work_dir, committed_dir, phase, completed_steps, steps_this,
                   chunk_steps_done, loaded_state, steps_executed, phases_returned,
                   executed_ever, executed_before, reexecuted>>
\* The while test at line 371: the next chunk starts, or run_phase returns
\* and lines 412-413 or 427 follow.
LoopTest ==
    /\ mo_pc = "loop"
    /\ IF steps_completed < total_steps
       THEN /\ steps_this' = StepsThis(chunk_size, total_steps, steps_completed)
            /\ chunk_steps_done' = 0
            /\ mo_pc' = "chunk"
            /\ seeds_used' = seeds_used \cup {seed_value}
            /\ UNCHANGED <<phase, completed_steps, phases_returned, soft_sequence,
                           best_sequence>>
       ELSE /\ phases_returned' = phases_returned \cup {phase_name}
            /\ phase' = Some(phase_name)
            /\ completed_steps' = IF phase_name = "coarse" THEN n_steps ELSE completed_steps
            /\ mo_pc' = IF phase_name = "coarse" THEN AfterCoarse(Some("coarse"))
                        ELSE "predict_msg"
            /\ soft_sequence' = current
            /\ best_sequence' = best
            /\ UNCHANGED <<steps_this, chunk_steps_done, seeds_used>>
    /\ UNCHANGED <<optArgs, seed_value, optPhase, observed_losses, last_write, job_status_dict, now, call, bzVars, extVars, ended_at, n_steps, sharpen_steps, chunk_size,
                   mo_attempt, kills, mo_preempted, sigterm_sent, sigterm_at, exception,
                   work_dir, committed_dir, phase_name, start_steps, total_steps,
                   steps_completed, loaded_state, steps_executed, checkpoint_writes,
                   executed_ever, executed_before, reexecuted>>
AfterStepChecked(done, this, flag) ==
    IF flag THEN "check" ELSE IF done = this THEN "arrays" ELSE "chunk"

\* Where the attempt is after an optimization step: simplex_APGM runs its
\* n_steps steps and never reads the preempted flag.
AfterStep(done, this, flag) == IF done = this THEN "arrays" ELSE "chunk"

\* One optimization step of the simplex_APGM call at line 374.
ExecStep ==
    /\ mo_pc = "chunk"
    /\ chunk_steps_done < steps_this
    /\ LET index == steps_completed + chunk_steps_done + 1
       IN /\ steps_executed' = [steps_executed EXCEPT ![phase_name] = @ + 1]
          /\ executed_ever' = [executed_ever EXCEPT ![phase_name] = Max(@, index)]
          /\ reexecuted' = reexecuted + (IF index <= executed_before[phase_name] THEN 1 ELSE 0)
    /\ chunk_steps_done' = chunk_steps_done + 1
    /\ mo_pc' = AfterStep(chunk_steps_done + 1, steps_this, mo_preempted)
    /\ UNCHANGED <<optArgs, optAttempt, optPhase, optHistory, job_status_dict, now, call, bzVars, extVars, ended_at, n_steps, sharpen_steps, chunk_size,
                   mo_attempt, kills, mo_preempted, sigterm_sent, sigterm_at, exception,
                   work_dir, committed_dir, phase, completed_steps, phase_name, start_steps,
                   total_steps, steps_completed, steps_this, loaded_state, phases_returned,
                   checkpoint_writes, executed_before>>
\* Lines 374-392 and 325-328: simplex_APGM returns the working candidate and
\* the chunk's best candidate, the objective is computed on the latter, best
\* is replaced when the test at line 388 says so, and save_checkpoint writes
\* the two arrays with np.save.
SaveArrays ==
    /\ mo_pc = "arrays"
    /\ \E loss_value \in loss_domain :
          LET done == steps_completed + steps_this
              candidate_best == Some(Candidate("best", phase_name, done, loss_value))
              new_current == Some(Candidate("soft", phase_name, done, 0))
              new_best == IF ReplacesBest(loss_value, best_loss) THEN candidate_best ELSE best
          IN  /\ current' = new_current
              /\ best' = new_best
              /\ best_loss' = IF ReplacesBest(loss_value, best_loss) THEN Some(loss_value)
                               ELSE best_loss
              /\ observed_losses' = observed_losses \cup {loss_value}
              /\ work_dir' = SaveArray(SaveArray(work_dir, phase_name \o "_soft.npy", new_current[1]),
                                       phase_name \o "_best.npy", new_best[1])
    /\ mo_pc' = "save"
    /\ UNCHANGED <<optArgs, optAttempt, seeds_used, last_write, job_status_dict, now, call, bzVars,
                   extVars, ended_at, n_steps, sharpen_steps, chunk_size,
                   mo_attempt, kills, mo_preempted, sigterm_sent, sigterm_at, exception, committed_dir,
                   phase, completed_steps, phase_name, start_steps, total_steps, steps_completed,
                   steps_this, chunk_steps_done, loaded_state, steps_executed, phases_returned,
                   checkpoint_writes, executed_ever, executed_before, reexecuted>>
\* Lines 394-395 and 329-335: steps_completed += steps_this, and
\* save_checkpoint's call of save_state with the volume commit.
SaveCheckpoint ==
    /\ mo_pc = "save"
    /\ steps_completed' = steps_completed + steps_this
    /\ work_dir' = save_state(work_dir,
                       CheckpointPayload(phase_name, steps_completed + steps_this, seed_value))
    /\ seeds_used' = seeds_used \cup {seed_value}
    /\ last_write' = [last_write EXCEPT ![phase_name] = steps_completed + steps_this]
    /\ committed_dir' = work_dir'
    /\ checkpoint_writes' =
          Append(checkpoint_writes, load_state(work_dir')[1]["steps_completed"])
    /\ mo_pc' = "check"
    /\ UNCHANGED <<optArgs, optAttempt, optPhase, observed_losses, job_status_dict, now, call, bzVars, extVars, ended_at, n_steps, sharpen_steps, chunk_size,
                   mo_attempt, kills, mo_preempted, sigterm_sent, sigterm_at, exception,
                   phase, completed_steps, phase_name, start_steps, total_steps, steps_this,
                   chunk_steps_done, loaded_state, steps_executed, phases_returned,
                   executed_ever, executed_before, reexecuted>>
\* preemption.raise_if_preempted() at line 396.
RaiseIfPreempted ==
    /\ mo_pc = "check"
    /\ IF mo_preempted
       THEN /\ exception' = Some("PreemptionRequested")
            /\ mo_pc' = "preempt_msg"
       ELSE /\ mo_pc' = "loop"
            /\ UNCHANGED exception
    /\ UNCHANGED <<optArgs, optAttempt, optPhase, optHistory, job_status_dict, now, call, bzVars, extVars, ended_at, n_steps, sharpen_steps, chunk_size,
                   mo_attempt, kills, mo_preempted, sigterm_sent, sigterm_at, work_dir,
                   committed_dir, phase, completed_steps, phase_name, start_steps, total_steps,
                   steps_completed, steps_this, chunk_steps_done, loaded_state, steps_executed,
                   phases_returned, checkpoint_writes, executed_ever, executed_before,
                   reexecuted>>
\* "raise" at line 432: the attempt ends with PreemptionRequested and
\* modal.Retries runs the function again while retries are left.
MoRaise ==
    /\ mo_pc = "raise"
    /\ IF mo_attempt < mosaic_max_retries
       THEN /\ mo_attempt' = mo_attempt + 1
            /\ BeginAttempt
       ELSE /\ mo_pc' = "exhausted"
            /\ UNCHANGED <<ended_at, mo_attempt, now, mo_preempted, sigterm_sent, sigterm_at, exception,
                           phase, completed_steps, phase_name, start_steps, total_steps,
                           steps_completed, steps_this, chunk_steps_done, loaded_state,
                           steps_executed, phases_returned, checkpoint_writes, reexecuted,
                           executed_before, optAttempt, optPhase>>
    /\ UNCHANGED <<optArgs, optHistory, job_status_dict, call, bzVars, extVars, n_steps, sharpen_steps, chunk_size, kills,
                   work_dir, committed_dir, executed_ever>>
\* Lines 435-506: the prediction and the two uploads.
Upload ==
    /\ mo_pc = "upload"
    /\ mo_pc' = "clear"
    /\ UNCHANGED <<optArgs, optAttempt, optPhase, optHistory, job_status_dict, now, call, bzVars, extVars, ended_at, n_steps, sharpen_steps, chunk_size,
                   mo_attempt, kills, mo_preempted, sigterm_sent, sigterm_at, exception,
                   work_dir, committed_dir, phase, completed_steps, phase_name, start_steps,
                   total_steps, steps_completed, steps_this, chunk_steps_done, loaded_state,
                   steps_executed, phases_returned, checkpoint_writes, executed_ever,
                   executed_before, reexecuted>>
\* preemption.clear_state() at line 508; it does not commit the volume.
ClearState ==
    /\ mo_pc = "clear"
    /\ work_dir' = clear_state(work_dir)
    /\ mo_pc' = "complete_msg"
    /\ UNCHANGED <<optArgs, optAttempt, optPhase, optHistory, job_status_dict, now, call, bzVars, extVars, ended_at, n_steps, sharpen_steps, chunk_size,
                   mo_attempt, kills, mo_preempted, sigterm_sent, sigterm_at, exception,
                   committed_dir, phase, completed_steps, phase_name, start_steps, total_steps,
                   steps_completed, steps_this, chunk_steps_done, loaded_state, steps_executed,
                   phases_returned, checkpoint_writes, executed_ever, executed_before,
                   reexecuted>>
\* The volume's background commit of changes no call has committed.
BackgroundCommit ==
    /\ MoAttemptRunning
    /\ committed_dir # work_dir
    /\ committed_dir' = work_dir
    /\ UNCHANGED <<optArgs, optAttempt, optPhase, optHistory, job_status_dict, now, call, bzVars, extVars, ended_at, n_steps, sharpen_steps, chunk_size,
                   mo_attempt, kills, mo_pc, mo_preempted, sigterm_sent, sigterm_at,
                   exception, work_dir, phase, completed_steps, phase_name, start_steps,
                   total_steps, steps_completed, steps_this, chunk_steps_done, loaded_state,
                   steps_executed, phases_returned, checkpoint_writes, executed_ever,
                   executed_before, reexecuted>>
\* return output at line 513.
MoReturn ==
    /\ mo_pc = "return"
    /\ mo_pc' = "done"
    /\ UNCHANGED <<optArgs, optAttempt, optPhase, optHistory, job_status_dict, now, call, bzVars, extVars, ended_at, n_steps, sharpen_steps, chunk_size,
                   mo_attempt, kills, mo_preempted, sigterm_sent, sigterm_at, exception,
                   work_dir, committed_dir, phase, completed_steps, phase_name, start_steps,
                   total_steps, steps_completed, steps_this, chunk_steps_done, loaded_state,
                   steps_executed, phases_returned, checkpoint_writes, executed_ever,
                   executed_before, reexecuted>>
\* SIGTERM while the attempt is inside run_phase: _handler (preemption.py
\* lines 72-76) interrupts the single thread of the attempt, sets preempted,
\* runs on_preempt and commits the volume.
MoSigterm ==
    /\ mo_pc \in {"loop", "chunk", "arrays", "save", "check"}
    /\ ~sigterm_sent
    /\ sigterm_sent' = TRUE
    /\ sigterm_at' = Some([pc |-> mo_pc, done |-> chunk_steps_done])
    /\ mo_preempted' = TRUE
    /\ job_status_dict' = send_progress(job_status_dict, Some(MoJobId), "processing",
                                        "Preemption detected, checkpointing...", now)
    /\ committed_dir' = work_dir
    /\ UNCHANGED <<optArgs, optAttempt, optPhase, optHistory, now, call, bzVars, extVars, ended_at, n_steps, sharpen_steps, chunk_size, mo_attempt, kills,
                   mo_pc, exception, work_dir, phase, completed_steps, phase_name,
                   start_steps, total_steps, steps_completed, steps_this, chunk_steps_done,
                   loaded_state, steps_executed, phases_returned, checkpoint_writes,
                   executed_ever, executed_before, reexecuted>>
\* The platform kills the container; the next attempt runs in a new
\* container that mounts the committed volume.
MoKill ==
    /\ MoAttemptRunning
    /\ kills < MaxKills
    /\ kills' = kills + 1
    /\ work_dir' = committed_dir
    /\ BeginAttempt
    /\ UNCHANGED <<optArgs, optHistory, job_status_dict, call, bzVars, extVars, n_steps, sharpen_steps, chunk_size,
                   mo_attempt, committed_dir, executed_ever>>
NextMosaic ==
    \/ MoStart \/ MoLedgerCall \/ LoadState \/ RunPhase \/ LoopTest \/ ExecStep
    \/ SaveArrays \/ SaveCheckpoint \/ RaiseIfPreempted \/ MoRaise \/ Upload \/ ClearState
    \/ BackgroundCommit \/ MoReturn \/ MoSigterm \/ MoKill

SpecMosaic == InitMosaic /\ [][NextMosaic]_vars

\* SpecOptimizer: the same attempts with candidates of different objective.
SpecOptimizer == InitOptimizer /\ [][NextMosaic]_vars

\* The target of a phase: n_steps for coarse, sharpen_steps for sharpen.
PhaseTarget(name) == IF name = "coarse" THEN n_steps ELSE sharpen_steps

\* C6: when the retries of run_mosaic_boltz2 are used up by attempts that
\* ended in PreemptionRequested, the ledger record of the job has status
\* failed and carries an error.
C6_ExhaustedRetriesMarkFailed ==
    mo_pc = "exhausted" =>
       /\ MoJobId \in DOMAIN job_status_dict
       /\ job_status_dict[MoJobId]["status"] = "failed"
       /\ "error" \in DOMAIN job_status_dict[MoJobId]

\* C7: an attempt of run_mosaic_boltz2 that ends by raising
\* PreemptionRequested has the exception in flight from raise_if_preempted to
\* the end of the attempt, with the checkpoint of the chunk just finished in
\* place; when it ends the ledger status is running and the record has no
\* error.
C7_PreemptedAttemptIsNotAFailure ==
    /\ mo_pc \in {"preempt_msg", "raise"} =>
          /\ exception = Some("PreemptionRequested")
          /\ load_state(work_dir) # None
          /\ load_state(work_dir)[1]["phase"] = phase_name
          /\ load_state(work_dir)[1]["steps_completed"] = steps_completed
    /\ mo_pc = "raise" =>
          /\ MoJobId \in DOMAIN job_status_dict
          /\ job_status_dict[MoJobId]["status"] = "running"
          /\ "error" \notin DOMAIN job_status_dict[MoJobId]

C7_Witness ==
    /\ mo_pc = "raise"
    /\ exception = Some("PreemptionRequested")
    /\ mo_attempt > 0
    /\ steps_completed < total_steps

\* C8: an attempt that loaded the checkpoint {phase: p, steps_completed: k}
\* executes no step of an earlier phase, never more than T - k steps of p,
\* and exactly T - k steps of p once run_phase has returned for p.
C8_ResumeExecutesRemainingSteps ==
    loaded_state # None =>
       LET p == loaded_state[1]["phase"]
           k == loaded_state[1]["steps_completed"]
       IN /\ p \in {"coarse", "sharpen"}
          /\ 0 <= k /\ k <= PhaseTarget(p)
          /\ steps_executed[p] <= PhaseTarget(p) - k
          /\ p \in phases_returned => steps_executed[p] = PhaseTarget(p) - k
          /\ p = "sharpen" => steps_executed["coarse"] = 0

C8_Witness ==
    /\ loaded_state # None
    /\ loaded_state[1]["phase"] \in phases_returned
    /\ loaded_state[1]["steps_completed"] > 0
    /\ loaded_state[1]["steps_completed"] < PhaseTarget(loaded_state[1]["phase"])
    /\ steps_executed[loaded_state[1]["phase"]] > 0

\* C9: the i-th checkpoint a run_phase call writes has steps_completed
\* min(s + i*c, T); a chunk never has more than T - steps_completed steps;
\* a call that returns has written ceil((T - s) / c) checkpoints.
C9_ChunkedCheckpointWrites ==
    /\ \A i \in DOMAIN checkpoint_writes :
          checkpoint_writes[i] = Min(start_steps + i * chunk_size, total_steps)
    /\ mo_pc \in {"chunk", "arrays", "save"} =>
          /\ steps_this <= total_steps - steps_completed
          /\ chunk_steps_done <= steps_this
    /\ phase_name \in phases_returned =>
          Len(checkpoint_writes) = (total_steps - start_steps + chunk_size - 1) \div chunk_size

C9_Witness ==
    /\ phase_name \in phases_returned
    /\ start_steps = 0
    /\ chunk_size = 2
    /\ checkpoint_writes = <<2, 3>>

\* The positions from the first optimization chunk to the final completion
\* update.
C10_Window ==
    {"chunk", "arrays", "save", "check", "loop", "preempt_msg", "raise", "sharpen_msg", "run_sharpen",
     "predict_msg", "upload", "clear", "complete_msg", "completion"}

\* C10: an attempt that follows one ended between the first optimization
\* chunk and the final completion update re-executes at most chunk_size of
\* the steps earlier attempts had executed.
C10_AtMostOneChunkRedone ==
    ended_at \in C10_Window => reexecuted <= chunk_size

\* C23: the seed of a job is fixed at job start: every attempt of the job
\* writes the same seed value into its checkpoints and derives its chunk
\* keys from it, and an attempt resumed from a checkpoint works with the seed
\* the checkpoint records, also when the caller passed no seed.
C23_SeedFixedForJob ==
    /\ Cardinality(seeds_used) <= 1
    /\ (loaded_state # None /\ "seed" \in DOMAIN loaded_state[1]) =>
           loaded_state[1]["seed"] = seed_value

\* What the code does keep: a seed the caller passed is the seed of every
\* attempt, and a checkpoint records the seed of the attempt that wrote it.
C23_PassedSeedIsKept ==
    /\ (seed # None /\ mo_pc # "idle") => (seed_value = seed[1] /\ seeds_used \subseteq {seed[1]})
    /\ mo_pc = "check" => load_state(work_dir)[1]["seed"] = seed_value

LowestObserved == CHOOSE l \in observed_losses : \A other \in observed_losses : l <= other

\* C26: the best candidate the optimizer keeps and writes to the checkpoint
\* after a chunk has the lowest objective among all chunk candidates observed
\* so far in the job, those of earlier attempts and of the previous phase
\* included.
C26_BestIsLowestObserved ==
    mo_pc \in {"save", "check"} =>
        /\ best[1].loss = LowestObserved
        /\ work_dir.arrays[phase_name \o "_best.npy"] = best[1]

\* What the code does keep: within one call of run_phase the best candidate
\* is the lowest of the candidates that call has observed, and it is the
\* array written to the phase's best file.
C26_BestOfThisCall ==
    mo_pc \in {"save", "check"} =>
        /\ best_loss = Some(best[1].loss)
        /\ best[1].kind = "best"
        /\ best[1].phase = phase_name
        /\ best[1].steps > start_steps
        /\ work_dir.arrays[phase_name \o "_best.npy"] = best[1]

\* A call of run_phase has set its locals and not yet started a chunk.
PhaseStarting == mo_pc = "loop" /\ checkpoint_writes = <<>> /\ steps_completed = start_steps

\* C27: a phase started fresh takes its initial working candidate from the
\* best candidate of the phase before it, the seeded initial candidate for
\* the first phase; a phase resumed from a checkpoint with steps_completed = k
\* takes the working candidate that was saved with that checkpoint at step k.
C27_InitialWorkingCandidate ==
    PhaseStarting =>
        IF phase = Some(phase_name)
        THEN current = Some(Candidate("soft", phase_name, start_steps, 0))
        ELSE IF phase_name = "coarse"
        THEN current = Some(SeededCandidate)
        ELSE /\ current = best_sequence
             /\ current[1].kind = "best"
             /\ current[1].phase = "coarse"
             /\ current[1] = work_dir.arrays["coarse_best.npy"]

\* The array files the attempt loaded are the ones written with the
\* checkpoint it loaded: no later np.save has replaced them.
ArraysOfLoadedCheckpoint ==
    loaded_state # None =>
        LET saved == loaded_state[1]
        IN  /\ saved["soft_sequence_path"] \in DOMAIN work_dir.arrays
            /\ soft_sequence # None
            /\ (phase = Some(phase_name) /\ PhaseStarting) =>
                   current[1].steps = saved["steps_completed"]

\* What the code does keep: the claim holds for every phase started fresh,
\* and for every resumed phase whose array files were not replaced after the
\* checkpoint was written.
C27_HoldsForUnreplacedArrays ==
    ArraysOfLoadedCheckpoint => C27_InitialWorkingCandidate

\* C28: the sharpen phase executes its first chunk only when the coarse
\* phase's steps_completed equals its target n_steps, in fresh runs and after
\* every resume: a sharpen step is executed only after run_phase returned for
\* coarse in the same attempt at n_steps, or by an attempt that loaded a
\* sharpen checkpoint, which an earlier attempt wrote after completing the
\* coarse phase; no coarse step follows a sharpen step in an attempt, and an
\* attempt that loaded a sharpen checkpoint executes no coarse step.
C28_SharpenOnlyAfterCoarseTarget ==
    /\ (phase_name = "sharpen" /\ mo_pc \in {"chunk", "arrays", "save", "check"}) =>
          /\ executed_ever["coarse"] = n_steps
          /\ last_write["coarse"] = n_steps
          /\ \/ "coarse" \in phases_returned /\ completed_steps = n_steps
             \/ loaded_state # None /\ loaded_state[1]["phase"] = "sharpen"
    /\ (phase_name = "coarse" /\ mo_pc \in {"chunk", "arrays", "save", "check"}) =>
          steps_executed["sharpen"] = 0
    /\ (loaded_state # None /\ loaded_state[1]["phase"] = "sharpen") =>
          /\ steps_executed["coarse"] = 0
          /\ "coarse" \notin phases_returned
          /\ phase_name # "coarse"

\* An attempt resumed from a sharpen checkpoint is executing a sharpen chunk
\* and has executed no coarse step.
C28_Witness ==
    /\ loaded_state # None
    /\ loaded_state[1]["phase"] = "sharpen"
    /\ phase_name = "sharpen"
    /\ mo_pc = "chunk"
    /\ chunk_steps_done = 0
    /\ steps_executed = [coarse |-> 0, sharpen |-> 0]
    /\ executed_ever["coarse"] = n_steps

\* The step that writes a checkpoint: save_state in save_checkpoint.
CheckpointWritten == mo_pc = "save" /\ mo_pc' = "check"

\* C29: across all checkpoint writes of a job, those of attempts that
\* resumed from a checkpoint included, the steps_completed recorded for a
\* phase is strictly increasing and never exceeds the phase's target.
C29_StepsCompletedStrictlyIncreasing ==
    [][CheckpointWritten =>
          LET written == load_state(work_dir')[1]
          IN  /\ written["phase"] = phase_name
              /\ written["steps_completed"] > last_write[phase_name]
              /\ written["steps_completed"] <= PhaseTarget(phase_name)]_vars

\* What the code does keep: the writes of one call of run_phase are strictly
\* increasing and within the target, and those of an attempt that resumed a
\* phase from a checkpoint lie above the steps_completed it loaded.
C29_IncreasingWithinCall ==
    /\ \A i, j \in DOMAIN checkpoint_writes : i < j => checkpoint_writes[i] < checkpoint_writes[j]
    /\ \A i \in DOMAIN checkpoint_writes :
          /\ checkpoint_writes[i] <= total_steps
          /\ (loaded_state # None /\ loaded_state[1]["phase"] = phase_name) =>
                 checkpoint_writes[i] > loaded_state[1]["steps_completed"]

(***************************************************************************)
(* SpecPreemption: a caller of PreemptionManager.save_state, load_state    *)
(* and clear_state on one work directory.                                  *)
(***************************************************************************)
\* The checkpoint payloads handed to save_state.
Payloads ==
    {[phase |-> p, steps_completed |-> k] : p \in {"coarse", "sharpen"}, k \in {0, 3, 12}}
    \cup {CheckpointPayload(p, k, 1234) : p \in {"coarse", "sharpen"}, k \in {25, 100}}

PmCall(op, state) == [op |-> op, state |-> state]

\* The mosaic variables a PreemptionManager call leaves alone.
pmRest == <<n_steps, sharpen_steps, chunk_size, mo_attempt, kills, mo_pc, mo_preempted,
            sigterm_sent, sigterm_at, exception, phase, completed_steps, phase_name, start_steps,
            total_steps, steps_completed, steps_this, chunk_steps_done, steps_executed,
            phases_returned, checkpoint_writes, executed_ever, executed_before, reexecuted,
            ended_at, seed, loss_domain, seed_value, soft_sequence, best_sequence, current, best,
            best_loss, observed_losses, seeds_used, last_write>>

InitPreemption ==
    /\ job_status_dict = EmptyDict
    /\ now = 0
    /\ call = NoCall
    /\ BzIdle
    /\ ExtIdle
    /\ MoIdle

\* The caller's side: the method and its argument.
CallPreemptionManager ==
    /\ call = NoCall
    /\ now < MaxCalls
    /\ \E op \in {"save_state", "load_state", "clear_state"} :
          IF op = "save_state"
          THEN \E state \in Payloads : call' = PmCall(op, Some(state))
          ELSE call' = PmCall(op, None)
    /\ UNCHANGED <<job_status_dict, now, bzVars, extVars, work_dir, committed_dir, loaded_state, pmRest>>

\* PreemptionManager.save_state: write_text, then adapter.commit().
PmSaveState ==
    /\ call.op = "save_state"
    /\ work_dir' = save_state(work_dir, call.state[1])
    /\ committed_dir' = work_dir'
    /\ now' = now + 1
    /\ call' = NoCall
    /\ UNCHANGED <<job_status_dict, bzVars, extVars, loaded_state, pmRest>>

\* PreemptionManager.load_state
PmLoadState ==
    /\ call.op = "load_state"
    /\ loaded_state' = load_state(work_dir)
    /\ now' = now + 1
    /\ call' = NoCall
    /\ UNCHANGED <<job_status_dict, bzVars, extVars, work_dir, committed_dir, pmRest>>

\* PreemptionManager.clear_state
PmClearState ==
    /\ call.op = "clear_state"
    /\ work_dir' = clear_state(work_dir)
    /\ now' = now + 1
    /\ call' = NoCall
    /\ UNCHANGED <<job_status_dict, bzVars, extVars, committed_dir, loaded_state, pmRest>>

NextPreemption == CallPreemptionManager \/ PmSaveState \/ PmLoadState \/ PmClearState

SpecPreemption == InitPreemption /\ [][NextPreemption]_vars

\* C11: a save_state(s) step leaves a checkpoint that load_state reads as s,
\* whatever was saved before; a clear_state step leaves none and changes
\* nothing when there was none; a load_state step returns what the last
\* save_state or clear_state step left and changes nothing.
C11_CheckpointRoundTrip ==
    [][ /\ Runs("save_state") => load_state(work_dir') = Some(call.state[1])
        /\ Runs("clear_state") =>
              /\ load_state(work_dir') = None
              /\ work_dir.checkpoint = None => work_dir' = work_dir
        /\ Runs("load_state") =>
              /\ loaded_state' = load_state(work_dir)
              /\ work_dir' = work_dir
      ]_vars

C11_Witness ==
    /\ call = NoCall
    /\ now = 3
    /\ loaded_state = Some(CheckpointPayload("sharpen", 100, 1234))
    /\ work_dir.checkpoint = None

\* The positions of an attempt of run_mosaic_boltz2 that has called
\* clear_state.
AfterClearState == {"complete_msg", "completion", "return"}

\* A step that ends an attempt of run_mosaic_boltz2 by an exception or a kill.
AttemptEndsWithoutReturn == mo_pc # "idle" /\ mo_pc' \in {"init1", "exhausted"}

\* C12 (a): the checkpoint is removed only by the clear_state call of an
\* attempt with no exception in flight, after every step of both phases has
\* been executed and the final artifacts uploaded.
C12_ClearOnlyAfterAllPhases ==
    /\ work_dir.checkpoint # None /\ work_dir'.checkpoint = None => mo_pc = "clear"
    /\ mo_pc = "clear" /\ mo_pc' = "complete_msg" =>
          /\ exception = None
          /\ \A p \in {"coarse", "sharpen"} : executed_ever[p] = PhaseTarget(p)

\* C12 (b): an attempt that ends by an exception or a kill has not called
\* clear_state.
C12_NotClearedByEndedAttempt == AttemptEndsWithoutReturn => mo_pc \notin AfterClearState

\* C12 (c): while the ledger status of the job is completed, load_state()
\* returns None.
C12_CompletedHasNoCheckpoint ==
    (MoJobId \in DOMAIN job_status_dict' /\ job_status_dict'[MoJobId]["status"] = "completed")
       => load_state(work_dir') = None

\* C12: the checkpoint is cleared exactly at terminal success: (a), (b) and
\* (c) hold at every step.
C12_ClearedExactlyAtSuccess ==
    [][ /\ C12_ClearOnlyAfterAllPhases
        /\ C12_NotClearedByEndedAttempt
        /\ C12_CompletedHasNoCheckpoint
      ]_vars

(***************************************************************************)
(* SpecEntry: the entry of run_boltzgen, run_mosaic_boltz2 and             *)
(* run_rfdiffusion3 under the platform's retry policy.  One sequential     *)
(* caller; the body after the inputs are resolved either returns or        *)
(* raises.                                                                 *)
(***************************************************************************)

Pipelines == {"run_boltzgen", "run_mosaic_boltz2", "run_rfdiffusion3"}

\* The retries the function's decorator grants: modal.Retries(max_retries=3)
\* on run_boltzgen and run_mosaic_boltz2, none on run_rfdiffusion3.
RetriesOf(p) ==
    IF p = "run_boltzgen" THEN max_retries
    ELSE IF p = "run_mosaic_boltz2" THEN mosaic_max_retries
    ELSE 0

EntryArgs ==
    [job_id : {None, Some("j1")},
     target_pdb : {None, Some("ATOM")},
     target_structure_url : {None, Some("https://files/target.cif")},
     target_sequence : {None, Some("MKV")}]

\* str(uuid.uuid4()): the n-th call returns an identifier no earlier call returned.
Uuids == <<"uuid-1", "uuid-2", "uuid-3", "uuid-4">>
uuid4(n) == Uuids[n]

BOLTZGEN_WORK_DIR == "/boltzgen-work"

\* resolve_structure_source: the source it returns, None when it raises ValueError.
resolve_structure_source(target_pdb, target_structure_url) ==
    IF Truthy(target_pdb) THEN target_pdb
    ELSE IF Truthy(target_structure_url) THEN target_structure_url
    ELSE None

\* The BoltzGen command line, as the set of its flags.
BoltzgenCmd(output_dir) ==
    [argv |-> {"boltzgen", "run", "--output", "--protocol", "--num_designs", "--budget",
               "--alpha", "--cache", "--reuse"},
     output |-> output_dir]

\* (work_dir / "boltzgen_output").exists(): an earlier run of the tool wrote there.
is_resuming(runs, dir) == \E i \in DOMAIN runs : runs[i].work_dir = dir

InitEntry ==
    /\ job_status_dict = EmptyDict
    /\ now = 0
    /\ call = NoCall
    /\ BzIdle
    /\ MoIdle
    /\ RnIdle
    /\ AuxIdle
    /\ pipeline \in Pipelines
    /\ entry_args \in EntryArgs
    /\ entry_pc = "entry"
    /\ entry_attempt = 0
    /\ effective_job_id = None
    /\ uuid_calls = 0
    /\ tool_runs = <<>>
    /\ entry_exception = ""

\* job_id = job_id or str(uuid.uuid4()), evaluated by every attempt on the
\* arguments of the call.
EntryJobId ==
    /\ entry_pc = "entry"
    /\ IF Truthy(entry_args.job_id)
       THEN /\ effective_job_id' = entry_args.job_id
            /\ UNCHANGED uuid_calls
       ELSE /\ effective_job_id' = Some(uuid4(uuid_calls + 1))
            /\ uuid_calls' = uuid_calls + 1
    /\ entry_pc' = IF pipeline = "run_boltzgen" THEN "resolve" ELSE "init"
    /\ UNCHANGED <<ledgerVars, call, bzVars, moVars, rnVars, auxVars, pipeline, entry_args, entry_attempt,
                   tool_runs, entry_exception>>

\* The progress events sent before the target is resolved: two by
\* run_mosaic_boltz2, one by run_rfdiffusion3 (run_boltzgen sends none).
EntryInitProgress ==
    /\ entry_pc = "init"
    /\ job_status_dict' =
          IF pipeline = "run_mosaic_boltz2"
          THEN send_progress(
                   send_progress(job_status_dict, effective_job_id, "init",
                                 "Initializing Mosaic Boltz2 pipeline", now),
                   effective_job_id, "init", "Ensuring Boltz-2 cache is available", now)
          ELSE send_progress(job_status_dict, effective_job_id, "init",
                             "Preparing target structure", now)
    /\ entry_pc' = IF pipeline = "run_mosaic_boltz2" /\ Truthy(entry_args.target_sequence)
                   THEN "body" ELSE "resolve"
    /\ UNCHANGED <<now, call, bzVars, moVars, rnVars, auxVars, pipeline, entry_args, entry_attempt,
                   effective_job_id, uuid_calls, tool_runs, entry_exception>>

\* target_source = resolve_structure_source(target_pdb, target_structure_url);
\* its ValueError is caught by no handler of the three functions.
EntryResolve ==
    /\ entry_pc = "resolve"
    /\ IF resolve_structure_source(entry_args.target_pdb, entry_args.target_structure_url) = None
       THEN /\ entry_exception' = "ValueError"
            /\ entry_pc' = "raised"
       ELSE /\ entry_pc' = IF pipeline = "run_boltzgen" THEN "setup" ELSE "body"
            /\ UNCHANGED entry_exception
    /\ UNCHANGED <<ledgerVars, call, bzVars, moVars, rnVars, auxVars, pipeline, entry_args, entry_attempt,
                   effective_job_id, uuid_calls, tool_runs>>

\* run_boltzgen: the work directory of the job id and the first progress event.
EntrySetup ==
    /\ entry_pc = "setup"
    /\ job_status_dict' =
          send_progress(job_status_dict, effective_job_id, "init",
                        IF is_resuming(tool_runs, <<BOLTZGEN_WORK_DIR, effective_job_id[1]>>)
                        THEN "Resuming BoltzGen pipeline..."
                        ELSE "Initializing BoltzGen pipeline", now)
    /\ entry_pc' = "tool"
    /\ UNCHANGED <<now, call, bzVars, moVars, rnVars, auxVars, pipeline, entry_args, entry_attempt,
                   effective_job_id, uuid_calls, tool_runs, entry_exception>>

\* run_boltzgen: the tool runs in the work directory; exit code 0 ends in the
\* completed record, any other in RuntimeError, which the handler reports
\* as failed and raises again.
EntryRunTool ==
    /\ entry_pc = "tool"
    /\ LET dir == <<BOLTZGEN_WORK_DIR, effective_job_id[1]>>
       IN tool_runs' = Append(tool_runs,
              [job_id |-> effective_job_id[1], work_dir |-> dir,
               cmd |-> BoltzgenCmd(<<dir, "boltzgen_output">>)])
    /\ \E rc \in {0, 1} :
          IF rc = 0
          THEN /\ job_status_dict' = send_completion(job_status_dict, effective_job_id,
                                         "completed", Some(BzOutput), None, None, now)
               /\ entry_pc' = "returned"
               /\ UNCHANGED entry_exception
          ELSE /\ job_status_dict' = send_completion(job_status_dict, effective_job_id,
                                         "failed", None, Some(BzError), None, now)
               /\ entry_exception' = "RuntimeError"
               /\ entry_pc' = "raised"
    /\ UNCHANGED <<now, call, bzVars, moVars, rnVars, auxVars, pipeline, entry_args, entry_attempt,
                   effective_job_id, uuid_calls>>

\* run_mosaic_boltz2 and run_rfdiffusion3 after the target is resolved: the
\* body returns after send_completion(job_id, status="completed", ...), or an
\* exception leaves it, which neither function reports to the ledger.
EntryBody ==
    /\ entry_pc = "body"
    /\ \E ok \in BOOLEAN :
          IF ok
          THEN /\ job_status_dict' = send_completion(job_status_dict, effective_job_id,
                                         "completed", Some(MoOutput), None, None, now)
               /\ entry_pc' = "returned"
               /\ UNCHANGED entry_exception
          ELSE /\ entry_exception' = "RuntimeError"
               /\ entry_pc' = "raised"
               /\ UNCHANGED job_status_dict
    /\ UNCHANGED <<now, call, bzVars, moVars, rnVars, auxVars, pipeline, entry_args, entry_attempt,
                   effective_job_id, uuid_calls, tool_runs>>

\* The platform after an exception left the function: it calls the function
\* again with the same arguments while retries remain, whatever the
\* exception was; otherwise the call has failed.
EntryRetry ==
    /\ entry_pc = "raised"
    /\ IF entry_attempt < RetriesOf(pipeline)
       THEN /\ entry_attempt' = entry_attempt + 1
            /\ entry_pc' = "entry"
            /\ effective_job_id' = None
            /\ now' = now + 1
       ELSE /\ entry_pc' = "exhausted"
            /\ UNCHANGED <<entry_attempt, effective_job_id, now>>
    /\ UNCHANGED <<job_status_dict, call, bzVars, moVars, rnVars, auxVars, pipeline, entry_args, uuid_calls,
                   tool_runs, entry_exception>>

NextEntry ==
    \/ EntryJobId
    \/ EntryInitProgress
    \/ EntryResolve
    \/ EntrySetup
    \/ EntryRunTool
    \/ EntryBody
    \/ EntryRetry

SpecEntry == InitEntry /\ [][NextEntry]_vars

\* C13: every retried attempt of run_boltzgen runs the tool with --reuse in
\* the work directory of the attempt before it and reports to the ledger
\* under the job id of the attempt before it, whether or not the caller
\* supplied a job_id.
C13_RetriesShareJobIdAndWorkDir ==
    pipeline = "run_boltzgen" =>
       /\ \A i \in DOMAIN tool_runs :
             /\ "--reuse" \in tool_runs[i].cmd.argv
             /\ i > 1 => /\ tool_runs[i].work_dir = tool_runs[i - 1].work_dir
                         /\ tool_runs[i].job_id = tool_runs[i - 1].job_id
       /\ Cardinality(DOMAIN job_status_dict) <= 1

\* The part of C13 that holds: when the caller supplied a job_id, every
\* attempt works under it.
C13_SuppliedJobIdIsKept ==
    (pipeline = "run_boltzgen" /\ Truthy(entry_args.job_id)) =>
       /\ \A i \in DOMAIN tool_runs :
             /\ "--reuse" \in tool_runs[i].cmd.argv
             /\ tool_runs[i].job_id = entry_args.job_id[1]
             /\ tool_runs[i].work_dir = <<BOLTZGEN_WORK_DIR, entry_args.job_id[1]>>
       /\ DOMAIN job_status_dict \subseteq {entry_args.job_id[1]}

(***************************************************************************)
(* SpecRunner: one call of run_boltzgen_with_progress(job_id = BzJobId)    *)
(* with wall-clock time.  now is time.time() in seconds; the main thread   *)
(* spawns the subprocess, opens the log, reads the output lines and waits; *)
(* progress_monitor polls beside it.  A ledger call is one step here.      *)
(***************************************************************************)

heartbeat_window == 60
poll_interval == 30
max_bytes == 8000

\* Model bounds: output lines read during the call, and the clock.
MaxRunLines == 5
MaxClock == 125

\* The seconds that pass between two steps.
TickSeconds == {60, 61}

\* Output lines: their lower-cased words and their length in the log file.
RunLines ==
    {[words |-> <<"running", "diffusion">>, bytes |-> 18],
     [words |-> <<"diffusion", "complete">>, bytes |-> 19],
     [words |-> <<"traceback">>, bytes |-> 4100]}

RunStartTime == 0

\* stage_key not in reported_stages
KeyAlwaysUnseen(key, reported) == TRUE
KeyUnseen(key, reported) == key \notin reported

\* time.time() - last_progress_time > 60
HeartbeatAfterAnyDelay(t, last) == t - last > 0
HeartbeatDue(t, last) == t - last > heartbeat_window

\* The loop without its break: the first matching rule that is unseen emits.
ScanRulesFirstUnseen(line, st, t) ==
    LET unseen == {m \in 1..Len(stage_patterns) :
                      /\ Matches(stage_patterns[m], line.words)
                      /\ stage_key(stage_patterns[m]) \notin st.reported}
    IN IF unseen = {} THEN st
       ELSE LET m == CHOOSE k \in unseen : \A u \in unseen : k <= u
            IN [reported |-> st.reported \cup {stage_key(stage_patterns[m])},
                ledger |-> send_progress(st.ledger, Some(BzJobId), stage_patterns[m].stage,
                                         stage_patterns[m].message, t),
                last |-> t]

\* check_line_for_progress(line) at time t on the scanner's state st:
\* the reported keys, last_progress_time and the ledger.
ScanRules(line, st, t) ==
    LET m == FirstMatch(line.words)
    IN IF m # 0 /\ KeyUnseen(stage_key(stage_patterns[m]), st.reported)
       THEN [reported |-> st.reported \cup {stage_key(stage_patterns[m])},
             ledger |-> send_progress(st.ledger, Some(BzJobId), stage_patterns[m].stage,
                                      stage_patterns[m].message, t),
             last |-> t]
       ELSE st

check_line_for_progress(line, st, t) ==
    LET st1 == ScanRules(line, st, t)
    IN IF HeartbeatDue(t, st1.last)
       THEN [st1 EXCEPT !.ledger = send_progress(st1.ledger, Some(BzJobId), "processing",
                                                 "Pipeline running...", t),
                        !.last = t]
       ELSE st1

\* tail_file(path, max_bytes): the byte range [first, last) of the file whose
\* decoding (errors="replace") it returns; the empty range for a missing file.
tail_whole_file(file, limit) ==
    IF file = None THEN [first |-> 0, last |-> 0] ELSE [first |-> 0, last |-> file[1]]
tail_file(file, limit) ==
    IF file = None THEN [first |-> 0, last |-> 0]
    ELSE IF file[1] > limit THEN [first |-> file[1] - limit, last |-> file[1]]
    ELSE [first |-> 0, last |-> file[1]]

\* RuntimeError(f"BoltzGen failed with exit code {return_code}. Log snippet:\n{tail}")
BoltzgenFailed(rc, tail) == [class |-> "RuntimeError", return_code |-> Some(rc), tail |-> Some(tail)]
OtherException(class) == [class |-> class, return_code |-> None, tail |-> None]

\* Variables of run_boltzgen the call of run_boltzgen_with_progress leaves alone.
rnBzRest == <<attempt, pc, main_existing, pending_event, monitor_existing, monitor_event,
              target_exists, output_dir_exists, preempted, handler_existing, n_sigterm,
              error_writes, output_writes>>

InitRunner ==
    /\ job_status_dict = EmptyDict
    /\ now = RunStartTime
    /\ call = NoCall
    /\ BzIdle
    /\ MoIdle
    /\ EnIdle
    /\ AuxIdle
    /\ run_pc = "start"
    /\ last_progress_time = 0
    /\ log_file = None
    /\ lines_read = [l \in RunLines |-> 0]
    /\ run_exception = None
    /\ poll_due_at = 0
    /\ process = "none"

\* Lines 241-244 and 315-316: the scanner's state is initialised and the
\* monitor thread is started, before the subprocess exists.
RunStart ==
    /\ run_pc = "start"
    /\ reported_stages' = {}
    /\ last_progress_time' = now
    /\ last_design_counts' = EmptyDict
    /\ stop_progress_monitor' = FALSE
    /\ monitor_pc' = "wait"
    /\ poll_due_at' = now + poll_interval
    /\ run_pc' = "spawn"
    /\ UNCHANGED <<ledgerVars, call, moVars, enVars, auxVars, rnBzRest, return_code, n_lines, n_polls,
                   log_file, lines_read, run_exception, process>>

\* subprocess.Popen(cmd, ...) at lines 319-326, outside the try statement:
\* it returns the running process or raises OSError.
RunSpawn ==
    /\ run_pc = "spawn"
    /\ \E ok \in BOOLEAN :
          IF ok
          THEN /\ process' = "alive"
               /\ run_pc' = "open"
               /\ UNCHANGED run_exception
          ELSE /\ run_exception' = Some(OtherException("OSError"))
               /\ run_pc' = "raised"
               /\ UNCHANGED process
    /\ UNCHANGED <<ledgerVars, call, moVars, enVars, auxVars, rnBzRest, reported_stages, return_code,
                   stop_progress_monitor, monitor_pc, last_design_counts, n_lines, n_polls,
                   last_progress_time, log_file, lines_read, poll_due_at>>

\* log_path.open("w", encoding="utf-8") at line 328, outside the try
\* statement: it truncates the file or raises OSError.
RunOpenLog ==
    /\ run_pc = "open"
    /\ \E ok \in BOOLEAN :
          IF ok
          THEN /\ log_file' = Some(0)
               /\ run_pc' = "lines"
               /\ UNCHANGED run_exception
          ELSE /\ run_exception' = Some(OtherException("OSError"))
               /\ run_pc' = "raised"
               /\ UNCHANGED log_file
    /\ UNCHANGED <<ledgerVars, call, moVars, enVars, auxVars, rnBzRest, reported_stages, return_code,
                   stop_progress_monitor, monitor_pc, last_design_counts, n_lines, n_polls,
                   last_progress_time, lines_read, poll_due_at, process>>

\* One iteration of "for line in process.stdout" (lines 330-339): the line is
\* appended to the log and scanned.
RunReadLine ==
    /\ run_pc = "lines"
    /\ n_lines < MaxRunLines
    /\ n_lines' = n_lines + 1
    /\ \E line \in RunLines :
          LET st == check_line_for_progress(line,
                        [reported |-> reported_stages, ledger |-> job_status_dict,
                         last |-> last_progress_time], now)
          IN /\ log_file' = Some(log_file[1] + line.bytes)
             /\ lines_read' = [lines_read EXCEPT ![line] = @ + 1]
             /\ reported_stages' = st.reported
             /\ job_status_dict' = st.ledger
             /\ last_progress_time' = st.last
    /\ UNCHANGED <<now, call, moVars, enVars, auxVars, rnBzRest, return_code, stop_progress_monitor,
                   monitor_pc, last_design_counts, n_polls, run_pc, run_exception, poll_due_at,
                   process>>

\* An exception inside the try statement while the output is read (a line
\* that cannot be decoded, a failed write of the log, a failed ledger call):
\* except Exception kills the process and raises it again, the finally
\* block sets the stop event (lines 348-354).
RunReadRaises ==
    /\ run_pc = "lines"
    /\ run_exception' = Some(OtherException("Exception"))
    /\ process' = "killed"
    /\ stop_progress_monitor' = TRUE
    /\ run_pc' = "raised"
    /\ UNCHANGED <<ledgerVars, call, moVars, enVars, auxVars, rnBzRest, reported_stages, return_code,
                   monitor_pc, last_design_counts, n_lines, n_polls, last_progress_time,
                   log_file, lines_read, poll_due_at>>

\* The output ends and process.wait() returns the exit code (line 342).
RunWait ==
    /\ run_pc = "lines"
    /\ \E rc \in {0, 1} : return_code' = Some(rc)
    /\ process' = "exited"
    /\ run_pc' = "exit"
    /\ UNCHANGED <<ledgerVars, call, moVars, enVars, auxVars, rnBzRest, reported_stages,
                   stop_progress_monitor, monitor_pc, last_design_counts, n_lines, n_polls,
                   last_progress_time, log_file, lines_read, run_exception, poll_due_at>>

\* Lines 344-354: a nonzero exit code raises RuntimeError with the tail of
\* the log; the finally block sets the stop event on both paths.
RunExit ==
    /\ run_pc = "exit"
    /\ IF return_code[1] # 0
       THEN /\ run_exception' =
                  Some(BoltzgenFailed(return_code[1], tail_file(log_file, max_bytes)))
            /\ run_pc' = "raised"
       ELSE /\ run_pc' = "returned"
            /\ UNCHANGED run_exception
    /\ stop_progress_monitor' = TRUE
    /\ UNCHANGED <<ledgerVars, call, moVars, enVars, auxVars, rnBzRest, reported_stages, return_code,
                   monitor_pc, last_design_counts, n_lines, n_polls, last_progress_time,
                   log_file, lines_read, poll_due_at, process>>

\* Time passes while the output is read and after the call has ended; the
\* start of the thread, the spawn and the opening of the log take no time
\* the scanner or the monitor could observe.
RunTick ==
    /\ run_pc \in {"lines", "exit", "returned", "raised"}
    /\ \E d \in TickSeconds :
          /\ now + d <= MaxClock
          /\ now' = now + d
    /\ UNCHANGED <<job_status_dict, call, moVars, enVars, auxVars, bzVars, rnVars>>

\* progress_monitor: stop_progress_monitor.wait(timeout=30) times out and
\* the loop body runs (lines 271-291).
RunMonitorPoll ==
    /\ monitor_pc = "wait"
    /\ ~stop_progress_monitor
    /\ now >= poll_due_at
    /\ n_polls < MaxPolls
    /\ n_polls' = n_polls + 1
    /\ poll_due_at' = now + poll_interval
    /\ \E result \in CountResults :
          LET usage == send_usage_update(job_status_dict, Some(BzJobId), BzGpuType,
                                         now - RunStartTime, now)
          IN IF result # None
                /\ ( result[1].stage_name \notin DOMAIN last_design_counts
                     \/ last_design_counts[result[1].stage_name] # result[1].count )
             THEN /\ last_design_counts' =
                        SetKey(last_design_counts, result[1].stage_name, result[1].count)
                  /\ job_status_dict' =
                        send_progress(usage, Some(BzJobId), result[1].stage_name,
                                      stage_labels[result[1].stage_name] \o ": "
                                      \o ToString(result[1].count) \o "/"
                                      \o ToString(result[1].total) \o " complete", now)
             ELSE /\ job_status_dict' = usage
                  /\ UNCHANGED last_design_counts
    /\ UNCHANGED <<now, call, moVars, enVars, auxVars, rnBzRest, reported_stages, return_code,
                   stop_progress_monitor, monitor_pc, n_lines, run_pc, last_progress_time,
                   log_file, lines_read, run_exception, process>>

\* progress_monitor: the wait returns True and the thread ends.
RunMonitorStop ==
    /\ monitor_pc = "wait"
    /\ stop_progress_monitor
    /\ monitor_pc' = "exited"
    /\ UNCHANGED <<ledgerVars, call, moVars, enVars, auxVars, rnBzRest, reported_stages, return_code,
                   stop_progress_monitor, last_design_counts, n_lines, n_polls, rnVars>>

NextRunner ==
    \/ RunStart
    \/ RunSpawn
    \/ RunOpenLog
    \/ RunReadLine
    \/ RunReadRaises
    \/ RunWait
    \/ RunExit
    \/ RunTick
    \/ RunMonitorPoll
    \/ RunMonitorStop

SpecRunner == InitRunner /\ [][NextRunner]_vars

\* The progress events of the call stored in the ledger, in order.
RunProgress == ProgressOf(job_status_dict, BzJobId)

\* How many stored events carry the (stage, message) pair.
EventCount(stage, message) ==
    Cardinality({i \in DOMAIN RunProgress :
                    RunProgress[i].stage = stage /\ RunProgress[i].message = message})

\* How many lines selecting rule m (the first rule matching them) were read.
LinesOfRule(m) ==
    {l \in RunLines : FirstMatch(l.words) = m /\ lines_read[l] > 0}

\* C14: within one call of run_boltzgen_with_progress the scanner emits the
\* progress event of a rule's (stage, message) pair at most once, and
\* exactly once as soon as a line selecting the rule was read, however
\* many such lines were read and in whatever order.
C14_RuleEventEmittedOnce ==
    \A m \in 1..Len(stage_patterns) :
       /\ EventCount(stage_patterns[m].stage, stage_patterns[m].message) <= 1
       /\ LinesOfRule(m) # {} =>
             EventCount(stage_patterns[m].stage, stage_patterns[m].message) = 1

\* Five identical matching lines were read and one event is stored for them.
C14_Witness ==
    /\ lines_read[[words |-> <<"running", "diffusion">>, bytes |-> 18]] = 5
    /\ EventCount("design", "Running diffusion backbone generation") = 1

\* The time of the last progress event stored for the call, the start of
\* the call if there is none.
LastEventTime ==
    LET times == {RunStartTime} \cup {RunProgress[i].timestamp : i \in DOMAIN RunProgress}
    IN CHOOSE t \in times : \A u \in times : u <= t

\* C15: while the subprocess is alive, every heartbeat window (60 s) that
\* elapses without a progress event gets its heartbeat event, whether or
\* not the subprocess prints lines: the last stored event, heartbeats
\* included, is never two windows old.
C15_HeartbeatEveryWindow ==
    (run_pc = "lines" /\ process = "alive") =>
        now - LastEventTime < 2 * heartbeat_window

IsHeartbeat(e) == e.stage = "processing" /\ e.message = "Pipeline running..."
IsRuleEvent(e) ==
    \E m \in 1..Len(stage_patterns) :
       e.stage = stage_patterns[m].stage /\ e.message = stage_patterns[m].message

\* C16: a heartbeat event of a call is more than one heartbeat window (60 s)
\* later than every earlier heartbeat and every earlier rule event of the
\* call, however many lines were read in between.
C16_HeartbeatsMoreThanWindowApart ==
    \A i, j \in DOMAIN RunProgress :
       ( /\ i < j
         /\ IsHeartbeat(RunProgress[j])
         /\ IsHeartbeat(RunProgress[i]) \/ IsRuleEvent(RunProgress[i]) )
       => RunProgress[j].timestamp - RunProgress[i].timestamp > heartbeat_window

\* A rule event and two heartbeats are stored, and five lines were read.
C16_Witness ==
    /\ n_lines = 5
    /\ \E i, j, k \in DOMAIN RunProgress :
          /\ i < j /\ j < k
          /\ IsRuleEvent(RunProgress[i])
          /\ IsHeartbeat(RunProgress[j])
          /\ IsHeartbeat(RunProgress[k])

\* Control has left run_boltzgen_with_progress.
RunLeft == run_pc \in {"returned", "raised"}

\* C17: on every path that leaves run_boltzgen_with_progress after the
\* monitor thread was started (return, nonzero exit, exception while
\* reading, failed spawn, failed opening of the log) the stop event of
\* the monitor is set when control leaves.
C17_StopEventSetOnEveryExit ==
    RunLeft => stop_progress_monitor

\* The part of C17 that holds: the paths through the try statement set the
\* stop event.
C17_StopEventSetAfterTry ==
    (RunLeft /\ log_file # None) => stop_progress_monitor

\* C18: run_boltzgen_with_progress returns without an exception when the
\* subprocess exits with code 0, and on any other exit code raises a
\* RuntimeError carrying that code and the end of the log file, at most
\* its last 8000 bytes.
C18_NonzeroExitRaisesBoundedTail ==
    (RunLeft /\ return_code # None) =>
        IF return_code[1] = 0
        THEN run_pc = "returned" /\ run_exception = None
        ELSE /\ run_pc = "raised"
             /\ run_exception # None
             /\ run_exception[1].class = "RuntimeError"
             /\ run_exception[1].return_code = return_code
             /\ run_exception[1].tail[1].last = log_file[1]
             /\ run_exception[1].tail[1].first >= 0
             /\ run_exception[1].tail[1].last - run_exception[1].tail[1].first <= max_bytes

\* A nonzero exit with a log longer than 8000 bytes raised with its last
\* 8000 bytes.
C18_Witness ==
    /\ run_pc = "raised"
    /\ return_code = Some(1)
    /\ log_file[1] > max_bytes
    /\ run_exception[1].tail[1] = [first |-> log_file[1] - max_bytes, last |-> log_file[1]]

\* C19: after a nonzero exit of the external tool the retry policy starts
\* a further attempt of run_boltzgen only if the preemption signal was
\* received during the attempt; without it the attempt that raised is
\* the last one and the ledger status is failed.
C19_RetryOnlyAfterPreemption ==
    [][ (pc = "raise" /\ return_code # None /\ return_code[1] # 0) =>
           /\ BzJobId \in DOMAIN job_status_dict
           /\ pc' = "init" => preempted
      ]_vars

\* The call has neither target_pdb nor target_structure_url and
\* resolve_structure_source has raised.
MissingInputRaised ==
    /\ ~Truthy(entry_args.target_pdb)
    /\ ~Truthy(entry_args.target_structure_url)
    /\ entry_exception = "ValueError"

\* C20: when a job of run_boltzgen, run_mosaic_boltz2 or run_rfdiffusion3 has
\* neither target_pdb nor target_structure_url, the attempt that finds the
\* input missing leaves the ledger record of the job with status failed,
\* and the retry policy runs no further attempt.
C20_MissingInputFailsAtOnce ==
    MissingInputRaised =>
       /\ entry_attempt = 0
       /\ entry_pc \in {"raised", "exhausted"}
       /\ effective_job_id[1] \in DOMAIN job_status_dict
       /\ job_status_dict[effective_job_id[1]]["status"] = "failed"

(***************************************************************************)
(* SpecFanout: the two call sites that fan out to other pipeline           *)
(* functions, run_rfdiffusion3's per-design loop and compute_scores, with  *)
(* sub-calls that return a dict or raise.                                  *)
(***************************************************************************)

FanJobId == "j1"
FanSites == {"run_rfdiffusion3", "compute_scores"}

\* len(cif_paths[:num_designs]), sequences_per_backbone and boltz_samples of
\* one call; compute_scores scores one design.
FanArgs ==
    {[total_designs |-> n, sequences_per_backbone |-> s, boltz_samples |-> b] :
        n \in {1, 2, 3}, s \in {0, 4}, b \in {0, 1}}

\* What function.remote(...) gives its caller: the dict the function returned
\* or the exception that left it.
RemoteOutcomes == {"dict", "raise"}

\* What run_boltz2 gives compute_scores: a completed result whose interface
\* has contacts or has none, a result of another status, or an exception.
ScoreOutcomes == {"contacts", "no_contacts", "not_completed", "raise"}

\* The message f"{text} {idx + 1}/{total_designs}".
DesignMessage(text, idx, total) == <<text, idx + 1, total>>

\* The sequences and scores a sub-call's dict carries.
MpnnSequences == <<"sequence">>
BoltzScores == {"iptm", "plddt"}
IpsaeScores == {"ipsae"}
InterfaceMetrics == {"interface_area"}

\* The record results.append(...) adds for design idx.
DesignRecord(idx, locals) ==
    [design_id |-> <<FanJobId, "d", idx>>,
     mpnn_sequences |-> locals.mpnn_sequences,
     scores |-> InterfaceMetrics \cup locals.boltz_scores,
     ipsae_scores |-> locals.ipsae_scores[1]]

InitFanout ==
    /\ job_status_dict = EmptyDict
    /\ now = 0
    /\ call = NoCall
    /\ BzIdle
    /\ MoIdle
    /\ EnIdle
    /\ RnIdle
    /\ MsaIdle
    /\ get_returned = None
    /\ TailIdle
    /\ HookIdle
    /\ fan_site \in FanSites
    /\ fan_args \in FanArgs
    /\ fan_site = "compute_scores" =>
           fan_args = [total_designs |-> 1, sequences_per_backbone |-> 0, boltz_samples |-> 1]
    /\ fan_pc = IF fan_site = "run_rfdiffusion3" THEN "loop" ELSE "boltz"
    /\ fan_idx = 0
    /\ fan_locals = FanDefaults(fan_site)
    /\ fan_results = <<>>
    /\ fan_failed = {}
    /\ fan_result = None
    /\ fan_exception = None

\* for idx, cif_path in enumerate(cif_paths[:num_designs]): the progress event
\* of the design and the extraction of its binder.
FanProcessDesign ==
    /\ fan_site = "run_rfdiffusion3"
    /\ fan_pc = "loop"
    /\ fan_idx < fan_args.total_designs
    /\ job_status_dict' = send_progress(job_status_dict, Some(FanJobId), "processing",
           DesignMessage("Processing design", fan_idx, fan_args.total_designs), now)
    /\ now' = now + 1
    /\ fan_locals' = FanDefaults(fan_site)
    /\ fan_pc' = "proteinmpnn"
    /\ UNCHANGED <<call, bzVars, moVars, enVars, rnVars, msaVars, get_returned, tailVars, hookVars, fan_site, fan_args, fan_idx, fan_results,
                   fan_failed, fan_result, fan_exception>>

\* if sequences_per_backbone and sequences_per_backbone > 0: run_proteinmpnn.remote(...)
\* with nothing to catch what it raises.
FanProteinMpnn ==
    /\ fan_pc = "proteinmpnn"
    /\ IF fan_args.sequences_per_backbone > 0
       THEN /\ job_status_dict' = send_progress(job_status_dict, Some(FanJobId), "proteinmpnn",
                   DesignMessage("Running ProteinMPNN for design", fan_idx, fan_args.total_designs), now)
            /\ now' = now + 1
            /\ \E outcome \in RemoteOutcomes :
                  IF outcome = "dict"
                  THEN /\ fan_locals' = [fan_locals EXCEPT !.mpnn_sequences = MpnnSequences]
                       /\ fan_pc' = "boltz"
                       /\ UNCHANGED <<fan_failed, fan_exception>>
                  ELSE /\ fan_failed' = fan_failed \cup {<<fan_idx, "run_proteinmpnn">>}
                       /\ fan_exception' = Some("run_proteinmpnn")
                       /\ fan_pc' = "raised"
                       /\ UNCHANGED fan_locals
       ELSE /\ fan_pc' = "boltz"
            /\ UNCHANGED <<job_status_dict, now, fan_locals, fan_failed, fan_exception>>
    /\ UNCHANGED <<call, bzVars, moVars, enVars, rnVars, msaVars, get_returned, tailVars, hookVars, fan_site, fan_args, fan_idx, fan_results,
                   fan_result>>

\* if boltz_samples and boltz_samples > 0: run_boltz2.remote(...), again with
\* nothing to catch what it raises; then the uploads and results.append(...).
FanBoltz ==
    /\ fan_site = "run_rfdiffusion3"
    /\ fan_pc = "boltz"
    /\ \E outcome \in (IF fan_args.boltz_samples > 0 THEN RemoteOutcomes ELSE {"skipped"}) :
          LET scored == [fan_locals EXCEPT !.boltz_scores = BoltzScores,
                                           !.ipsae_scores = Some(IpsaeScores)]
              locals == IF outcome = "dict" THEN scored ELSE fan_locals
          IN  /\ IF outcome = "skipped"
                 THEN UNCHANGED <<job_status_dict, now>>
                 ELSE /\ job_status_dict' = send_progress(job_status_dict, Some(FanJobId), "boltz",
                             DesignMessage("Running Boltz-2 scoring for design", fan_idx,
                                           fan_args.total_designs), now)
                      /\ now' = now + 1
              /\ IF outcome = "raise"
                 THEN /\ fan_failed' = fan_failed \cup {<<fan_idx, "run_boltz2">>}
                      /\ fan_exception' = Some("run_boltz2")
                      /\ fan_pc' = "raised"
                      /\ UNCHANGED <<fan_locals, fan_results, fan_idx>>
                 ELSE /\ fan_locals' = locals
                      /\ fan_results' = Append(fan_results, DesignRecord(fan_idx, locals))
                      /\ fan_idx' = fan_idx + 1
                      /\ fan_pc' = "loop"
                      /\ UNCHANGED <<fan_failed, fan_exception>>
    /\ UNCHANGED <<call, bzVars, moVars, enVars, rnVars, msaVars, get_returned, tailVars, hookVars, fan_site, fan_args, fan_result>>

\* After the loop: the upload of the manifest, send_completion and return result.
FanReturn ==
    /\ fan_site = "run_rfdiffusion3"
    /\ fan_pc = "loop"
    /\ fan_idx = fan_args.total_designs
    /\ LET result == [status |-> "completed", designs |-> fan_results]
       IN  /\ job_status_dict' =
                 send_completion(
                     send_progress(job_status_dict, Some(FanJobId), "upload",
                                   <<"Uploading results">>, now),
                     Some(FanJobId), "completed", Some(result), None, None, now)
           /\ fan_result' = Some(result)
    /\ now' = now + 1
    /\ fan_pc' = "returned"
    /\ UNCHANGED <<call, bzVars, moVars, enVars, rnVars, msaVars, get_returned, tailVars, hookVars, fan_site, fan_args, fan_idx, fan_locals,
                   fan_results, fan_failed, fan_exception>>

\* compute_scores: try: boltz_result = run_boltz2.remote(...) ... except
\* Exception as e: boltz_error = str(e).
ScoresBoltz ==
    /\ fan_site = "compute_scores"
    /\ fan_pc = "boltz"
    /\ job_status_dict' = send_progress(job_status_dict, Some(FanJobId), "boltz",
           <<"Running Boltz-2 prediction for ipSAE scoring">>, now)
    /\ now' = now + 1
    /\ \E outcome \in ScoreOutcomes :
          /\ fan_locals' =
                CASE outcome = "contacts" ->
                        [fan_locals EXCEPT !.ipsae_scores = Some(IpsaeScores)]
                  [] outcome = "no_contacts" ->
                        [fan_locals EXCEPT !.ipsae_scores = Some({})]
                  [] outcome = "not_completed" ->
                        [fan_locals EXCEPT !.boltz_error = Some("Boltz-2 prediction failed")]
                  [] outcome = "raise" ->
                        [fan_locals EXCEPT !.boltz_error = Some("exception")]
          /\ fan_failed' = IF outcome = "raise" THEN {<<0, "run_boltz2">>} ELSE fan_failed
    /\ fan_pc' = "result"
    /\ UNCHANGED <<call, bzVars, moVars, enVars, rnVars, msaVars, get_returned, tailVars, hookVars, fan_site, fan_args, fan_idx, fan_results,
                   fan_result, fan_exception>>

\* if not ipsae_scores or ipsae_scores.get("n_interface_contacts", 0) == 0:
\* the failed result; otherwise the completed one.  Either is sent and returned.
ScoresReturn ==
    /\ fan_site = "compute_scores"
    /\ fan_pc = "result"
    /\ LET scored == fan_locals.ipsae_scores # None /\ fan_locals.ipsae_scores[1] # {}
           result == IF scored
                     THEN [status |-> "completed", interface_metrics |-> InterfaceMetrics,
                           ipsae_scores |-> fan_locals.ipsae_scores[1]]
                     ELSE [status |-> "failed", interface_metrics |-> InterfaceMetrics,
                           error |-> fan_locals.boltz_error]
       IN  /\ job_status_dict' =
                 IF scored
                 THEN send_completion(job_status_dict, Some(FanJobId), "completed", Some(result),
                                      None, None, now)
                 ELSE send_completion(job_status_dict, Some(FanJobId), "failed", Some(result),
                                      Some("No ipSAE scores"), None, now)
           /\ fan_result' = Some(result)
    /\ now' = now + 1
    /\ fan_pc' = "returned"
    /\ UNCHANGED <<call, bzVars, moVars, enVars, rnVars, msaVars, get_returned, tailVars, hookVars, fan_site, fan_args, fan_idx, fan_locals,
                   fan_results, fan_failed, fan_exception>>

NextFanout ==
    \/ FanProcessDesign
    \/ FanProteinMpnn
    \/ FanBoltz
    \/ FanReturn
    \/ ScoresBoltz
    \/ ScoresReturn

SpecFanout == InitFanout /\ [][NextFanout]_vars

\* The call site has ended, by a return or by an exception.
FanEnded == fan_pc \in {"returned", "raised"}

\* C21: at every fan-out call site a sub-call that fails for one candidate
\* leaves only that candidate's sub-result fields empty or default, the other
\* candidates are still processed and the batch result is still produced:
\* a call site that has ended has returned its result, and in
\* run_rfdiffusion3 the result has one record per design, whose fields of a
\* requested sub-call are empty only when that sub-call failed for that design.
C21_SubCallFailureDegradesOneCandidate ==
    FanEnded =>
        /\ fan_pc = "returned"
        /\ fan_result # None
        /\ fan_site = "run_rfdiffusion3" =>
              /\ Len(fan_result[1].designs) = fan_args.total_designs
              /\ \A i \in DOMAIN fan_result[1].designs :
                    LET design == fan_result[1].designs[i]
                    IN  /\ (fan_args.sequences_per_backbone > 0
                            /\ <<i - 1, "run_proteinmpnn">> \notin fan_failed)
                               => design.mpnn_sequences = MpnnSequences
                        /\ (fan_args.boltz_samples > 0
                            /\ <<i - 1, "run_boltz2">> \notin fan_failed)
                               => design.ipsae_scores = IpsaeScores

\* What the code does keep: compute_scores returns a result whatever its
\* sub-call did, and run_rfdiffusion3 returns one whenever no sub-call raised.
C21_ScoresAlwaysReturns ==
    FanEnded =>
        /\ fan_site = "compute_scores" => fan_pc = "returned" /\ fan_result # None
        /\ (fan_site = "run_rfdiffusion3" /\ fan_failed = {}) =>
               /\ fan_pc = "returned"
               /\ Len(fan_result[1].designs) = fan_args.total_designs

(***************************************************************************)
(* SpecBoltz2: one call of run_boltz2 from its first progress event to its *)
(* return, with predictions that succeed, time out or fail.                *)
(***************************************************************************)

BOLTZ_MSA_TIMEOUT_SECONDS == 600

Boltz2Args ==
    [job_id : {None, Some("j1")}, use_self_hosted_msa : BOOLEAN, skip_msa_server : BOOLEAN,
     BOLTZ_USE_MSA_SERVER : BOOLEAN]

\* What subprocess.run(cmd, check=True, timeout=timeout_seconds) does: it
\* returns, raises TimeoutExpired (only with a timeout), raises
\* CalledProcessError for a nonzero exit, or raises OSError without having
\* started the process.
PredictionOutcomes(timeout_seconds) ==
    {"returned", "CalledProcessError", "OSError"} \cup
        (IF timeout_seconds # None THEN {"TimeoutExpired"} ELSE {})

\* The exceptions the try statement around the MSA-server prediction catches.
MsaCaught == {"TimeoutExpired", "CalledProcessError"}

FallbackAlways(use, mode) == TRUE

\* if not use_msa_server or msa_mode_used == "none"
NeedsFallback(use, mode) == ~use \/ mode = "none"

InitBoltz2 ==
    /\ job_status_dict = EmptyDict
    /\ now = 0
    /\ call = NoCall
    /\ BzIdle
    /\ MoIdle
    /\ EnIdle
    /\ RnIdle
    /\ FanIdle
    /\ get_returned = None
    /\ TailIdle
    /\ HookIdle
    /\ msa_pc = "start"
    /\ msa_args \in Boltz2Args
    /\ msa_job_id = None
    /\ use_msa_server = FALSE
    /\ msa_mode_used = ""
    /\ predictions = <<>>
    /\ msa_exception = None

\* job_id = job_id or str(uuid.uuid4()) and the first progress event.
Boltz2Start ==
    /\ msa_pc = "start"
    /\ LET id == IF Truthy(msa_args.job_id) THEN msa_args.job_id ELSE Some("uuid-1")
       IN  /\ msa_job_id' = id
           /\ job_status_dict' = send_progress(job_status_dict, id, "boltz2",
                                               "Starting Boltz-2 prediction", now)
    /\ now' = now + 1
    /\ msa_pc' = "strategy"
    /\ UNCHANGED <<call, bzVars, moVars, enVars, rnVars, fanVars, get_returned, tailVars, hookVars, msa_args, use_msa_server,
                   msa_mode_used, predictions, msa_exception>>

\* use_msa_server = BOLTZ_USE_MSA_SERVER and not use_self_hosted_msa and not
\* skip_msa_server; msa_mode_used = "none".
Boltz2Strategy ==
    /\ msa_pc = "strategy"
    /\ use_msa_server' = (/\ msa_args.BOLTZ_USE_MSA_SERVER
                          /\ ~msa_args.use_self_hosted_msa
                          /\ ~msa_args.skip_msa_server)
    /\ msa_mode_used' = "none"
    /\ msa_pc' = "msa"
    /\ UNCHANGED <<job_status_dict, now, call, bzVars, moVars, enVars, rnVars, fanVars, get_returned, tailVars, hookVars, msa_args,
                   msa_job_id, predictions, msa_exception>>

\* if use_msa_server: the prediction with the MSA server inside the try
\* statement that catches TimeoutExpired and CalledProcessError.
Boltz2MsaPrediction ==
    /\ msa_pc = "msa"
    /\ IF use_msa_server
       THEN /\ job_status_dict' = send_progress(job_status_dict, msa_job_id, "boltz2",
                                                "Running with MSA server", now)
            /\ now' = now + 1
            /\ \E outcome \in PredictionOutcomes(Some(BOLTZ_MSA_TIMEOUT_SECONDS)) :
                  /\ predictions' = Append(predictions,
                         [use_msa_server |-> TRUE,
                          timeout_seconds |-> Some(BOLTZ_MSA_TIMEOUT_SECONDS),
                          outcome |-> outcome])
                  /\ msa_mode_used' =
                         IF outcome = "returned" THEN "public_server" ELSE msa_mode_used
                  /\ use_msa_server' = IF outcome \in MsaCaught THEN FALSE ELSE use_msa_server
                  /\ msa_exception' =
                         IF outcome = "OSError" THEN Some(outcome) ELSE msa_exception
                  /\ msa_pc' = IF outcome = "OSError" THEN "raised" ELSE "fallback"
       ELSE /\ msa_pc' = "fallback"
            /\ UNCHANGED <<job_status_dict, now, predictions, msa_mode_used, use_msa_server,
                           msa_exception>>
    /\ UNCHANGED <<call, bzVars, moVars, enVars, rnVars, fanVars, get_returned, tailVars, hookVars, msa_args, msa_job_id>>

\* if not use_msa_server or msa_mode_used == "none": the prediction without
\* the MSA server, outside any try statement.
Boltz2Fallback ==
    /\ msa_pc = "fallback"
    /\ IF NeedsFallback(use_msa_server, msa_mode_used)
       THEN /\ IF msa_mode_used = "none"
               THEN /\ job_status_dict' = send_progress(job_status_dict, msa_job_id, "boltz2",
                                                        "Running without MSA server", now)
                    /\ now' = now + 1
               ELSE UNCHANGED <<job_status_dict, now>>
            /\ \E outcome \in PredictionOutcomes(None) :
                  /\ predictions' = Append(predictions,
                         [use_msa_server |-> FALSE, timeout_seconds |-> None,
                          outcome |-> outcome])
                  /\ msa_mode_used' = IF outcome = "returned" THEN "none" ELSE msa_mode_used
                  /\ msa_exception' =
                         IF outcome = "returned" THEN msa_exception ELSE Some(outcome)
                  /\ msa_pc' = IF outcome = "returned" THEN "results" ELSE "raised"
       ELSE /\ msa_pc' = "results"
            /\ UNCHANGED <<job_status_dict, now, predictions, msa_mode_used, msa_exception>>
    /\ UNCHANGED <<call, bzVars, moVars, enVars, rnVars, fanVars, get_returned, tailVars, hookVars, msa_args, msa_job_id,
                   use_msa_server>>

\* The result is read, uploaded, sent with status completed and returned.
Boltz2Return ==
    /\ msa_pc = "results"
    /\ job_status_dict' =
           send_completion(job_status_dict, msa_job_id, "completed",
                           Some([status |-> "completed", msa_mode |-> msa_mode_used]),
                           None, None, now)
    /\ now' = now + 1
    /\ msa_pc' = "returned"
    /\ UNCHANGED <<call, bzVars, moVars, enVars, rnVars, fanVars, get_returned, tailVars, hookVars, msa_args, msa_job_id,
                   use_msa_server, msa_mode_used, predictions, msa_exception>>

NextBoltz2 ==
    \/ Boltz2Start
    \/ Boltz2Strategy
    \/ Boltz2MsaPrediction
    \/ Boltz2Fallback
    \/ Boltz2Return

SpecBoltz2 == InitBoltz2 /\ [][NextBoltz2]_vars

\* The predictions run with (TRUE) or without (FALSE) the MSA server.
PredictionsWith(msa) == {i \in DOMAIN predictions : predictions[i].use_msa_server = msa}

\* The prediction with the MSA server timed out or failed.
MsaPredictionFailed ==
    \E i \in PredictionsWith(TRUE) : predictions[i].outcome \in MsaCaught

\* The progress events that record the run without the MSA server.
FallbackEvents ==
    IF msa_job_id # None /\ msa_job_id[1] \in DOMAIN job_status_dict
    THEN {i \in DOMAIN job_status_dict[msa_job_id[1]]["progress"] :
             job_status_dict[msa_job_id[1]]["progress"][i].message = "Running without MSA server"}
    ELSE {}

\* C22: when the prediction with the MSA server times out or fails,
\* run_boltz2 goes on to run exactly one prediction without the MSA server,
\* records it as one progress event and does not mark the job failed (it is
\* completed when the fallback returns); when the prediction with the MSA
\* server returns, no prediction without it is run.
C22_MsaFailureFallsBackOnce ==
    /\ (MsaPredictionFailed /\ msa_pc \in {"results", "returned", "raised"}) =>
          /\ Cardinality(PredictionsWith(FALSE)) = 1
          /\ Cardinality(FallbackEvents) = 1
          /\ \A i \in PredictionsWith(FALSE) : i > 1 /\ predictions[i].timeout_seconds = None
          /\ job_status_dict[msa_job_id[1]]["status"] # "failed"
          /\ msa_pc = "raised" => \E i \in PredictionsWith(FALSE) : predictions[i].outcome # "returned"
          /\ msa_pc = "returned" => job_status_dict[msa_job_id[1]]["status"] = "completed"
    /\ (\E i \in PredictionsWith(TRUE) : predictions[i].outcome = "returned") =>
          PredictionsWith(FALSE) = {}
    /\ Cardinality(PredictionsWith(TRUE)) <= 1

\* run_boltz2 returned after the MSA-server prediction timed out and the
\* fallback prediction succeeded.
C22_Witness ==
    /\ msa_pc = "returned"
    /\ \E i \in PredictionsWith(TRUE) : predictions[i].outcome = "TimeoutExpired"
    /\ Cardinality(PredictionsWith(FALSE)) = 1
    /\ Cardinality(FallbackEvents) = 1


\* C24: get_job_status on a job_id for which no update was ever made (the
\* ledger holds no record of it) returns None and creates no record: the
\* ledger is the same after the call.
C24_GetOfUnknownJobReturnsNone ==
    [][\A job_id \in GetIds :
          (GetJobStatusOf(job_id) /\ job_id \notin DOMAIN job_status_dict) =>
              /\ get_returned'[1].value = None
              /\ job_status_dict' = job_status_dict
              /\ job_id \notin DOMAIN job_status_dict']_vars

\* The same on the states: an answer for a job the ledger still has no record
\* of is None.
C24_AnswerForUnknownJobIsNone ==
    (get_returned # None /\ get_returned[1].job_id \notin DOMAIN job_status_dict) =>
        get_returned[1].value = None

\* get_job_status was asked for a job never updated while the ledger holds
\* another job's record.
C24_Witness ==
    /\ get_returned = Some([job_id |-> "j2", value |-> None])
    /\ "j1" \in DOMAIN job_status_dict
    /\ "j2" \notin DOMAIN job_status_dict

(***************************************************************************)
(* SpecHook: PreemptionManager.register_signal_handler and the firings of  *)
(* the termination hook it installs.                                       *)
(***************************************************************************)

MaxFirings == 3

\* The adapter, whether it has a volume, and whether on_preempt was passed.
HookArgs ==
    [adapter : {"ModalPreemptionAdapter", "NoopPreemptionAdapter"}, volume : BOOLEAN,
     on_preempt : BOOLEAN]

\* A call of on_preempt returns or raises; volume.commit() likewise.
CallOutcomes == {"returned", "raised"}

HookEvent(step, outcome) == [firing |-> hook_firings, step |-> step, outcome |-> outcome]

InitHook ==
    /\ job_status_dict = EmptyDict
    /\ now = 0
    /\ call = NoCall
    /\ BzIdle
    /\ MoIdle
    /\ EnIdle
    /\ RnIdle
    /\ FanIdle
    /\ MsaIdle
    /\ get_returned = None
    /\ TailIdle
    /\ hook_args \in HookArgs
    /\ hook_pc = "constructed"
    /\ hook_preempted = FALSE
    /\ hook_firings = 0
    /\ hook_trace = <<>>

\* register_signal_handler(on_preempt): adapter.register_handler(_handler).
\* The Modal adapter installs it for SIGTERM, the no-op adapter drops it.
RegisterSignalHandler ==
    /\ hook_pc = "constructed"
    /\ hook_pc' = IF hook_args.adapter = "ModalPreemptionAdapter" THEN "installed" ELSE "dropped"
    /\ UNCHANGED <<job_status_dict, now, call, bzVars, moVars, enVars, rnVars, fanVars, msaVars,
                   get_returned, tailVars, hook_args, hook_preempted, hook_firings, hook_trace>>

\* SIGTERM is delivered: _handle_sigterm calls _handler, whose first
\* statement is self.preempted = True.
HookSetFlag ==
    /\ hook_pc = "installed"
    /\ hook_firings < MaxFirings
    /\ hook_firings' = hook_firings + 1
    /\ hook_preempted' = TRUE
    /\ hook_trace' = Append(hook_trace,
                            [firing |-> hook_firings + 1, step |-> "preempted", outcome |-> "returned"])
    /\ hook_pc' = "on_preempt"
    /\ UNCHANGED <<job_status_dict, now, call, bzVars, moVars, enVars, rnVars, fanVars, msaVars,
                   get_returned, tailVars, hook_args>>

\* if on_preempt: on_preempt().  What it raises leaves _handler.
HookOnPreempt ==
    /\ hook_pc = "on_preempt"
    /\ IF hook_args.on_preempt
       THEN \E outcome \in CallOutcomes :
               /\ hook_trace' = Append(hook_trace, HookEvent("on_preempt", outcome))
               /\ hook_pc' = IF outcome = "returned" THEN "commit" ELSE "installed"
       ELSE /\ hook_pc' = "commit"
            /\ UNCHANGED hook_trace
    /\ UNCHANGED <<job_status_dict, now, call, bzVars, moVars, enVars, rnVars, fanVars, msaVars,
                   get_returned, tailVars, hook_args, hook_preempted, hook_firings>>

\* self.adapter.commit(): without a volume it returns at once, with one it
\* calls volume.commit() and swallows what that raises.
HookCommit ==
    /\ hook_pc = "commit"
    /\ \E outcome \in (IF hook_args.volume THEN CallOutcomes ELSE {"no volume"}) :
          hook_trace' = Append(hook_trace, HookEvent("adapter.commit", outcome))
    /\ hook_pc' = "installed"
    /\ UNCHANGED <<job_status_dict, now, call, bzVars, moVars, enVars, rnVars, fanVars, msaVars,
                   get_returned, tailVars, hook_args, hook_preempted, hook_firings>>

NextHook ==
    \/ RegisterSignalHandler
    \/ HookSetFlag
    \/ HookOnPreempt
    \/ HookCommit

SpecHook == InitHook /\ [][NextHook]_vars

\* The positions in the trace of a step of a firing.
StepsOf(firing, step) ==
    {i \in DOMAIN hook_trace : hook_trace[i].firing = firing /\ hook_trace[i].step = step}

\* The firings of the hook that have ended.
FiringsEnded == {f \in 1..hook_firings : f < hook_firings \/ hook_pc = "installed"}

\* C30: every time the termination hook fires, the preempted flag is set
\* before on_preempt is invoked and adapter.commit() is called after
\* on_preempt, so adapter.commit() is called in every firing of the hook.
C30_CommitOnEveryFiring ==
    \A f \in FiringsEnded :
        /\ StepsOf(f, "preempted") # {}
        /\ StepsOf(f, "adapter.commit") # {}
        /\ \A i \in StepsOf(f, "preempted"), j \in StepsOf(f, "on_preempt") : i < j
        /\ \A j \in StepsOf(f, "on_preempt"), k \in StepsOf(f, "adapter.commit") : j < k

\* What the handler does keep: the flag is set first, on_preempt is invoked
\* when it was passed, and adapter.commit() follows whenever on_preempt was
\* not passed or returned.
C30_OrderAndCommitAfterReturn ==
    \A f \in FiringsEnded :
        /\ hook_preempted
        /\ StepsOf(f, "preempted") # {}
        /\ \A i \in StepsOf(f, "preempted"), j \in StepsOf(f, "on_preempt") : i < j
        /\ \A j \in StepsOf(f, "on_preempt"), k \in StepsOf(f, "adapter.commit") : j < k
        /\ hook_args.on_preempt => StepsOf(f, "on_preempt") # {}
        /\ (\A j \in StepsOf(f, "on_preempt") : hook_trace[j].outcome = "returned")
               => StepsOf(f, "adapter.commit") # {}

(***************************************************************************)
(* SpecScanner: the log scanner of run_boltzgen_with_progress on lines     *)
(* that match more than one rule.  The main thread initialises the         *)
(* scanner's state and reads the output line by line; every line is        *)
(* scanned by check_line_for_progress against the ledger of BzJobId.       *)
(***************************************************************************)

\* Model bound: the lines scanned during the call.
MaxScanLines == 3

\* Output lines, lower-cased words: one matching rule 1, one matching rules
\* 2 and 3, one matching rules 4 and 6, one matching none.
ScanLines ==
    {<<"running", "diffusion">>,
     <<"diffusion", "complete", "running", "inverse", "folding">>,
     <<"inverse", "folding", "complete">>,
     <<"step", "done">>}

\* The (stage, message) pairs of the progress events a call appended.
EventsSince(before, after) ==
    [i \in 1..(Len(ProgressOf(after, BzJobId)) - Len(ProgressOf(before, BzJobId))) |->
        [stage |-> ProgressOf(after, BzJobId)[Len(ProgressOf(before, BzJobId)) + i].stage,
         message |-> ProgressOf(after, BzJobId)[Len(ProgressOf(before, BzJobId)) + i].message]]

InitScanner ==
    /\ job_status_dict = EmptyDict
    /\ now = RunStartTime
    /\ call = NoCall
    /\ BzIdle
    /\ MoIdle
    /\ EnIdle
    /\ FanIdle
    /\ MsaIdle
    /\ get_returned = None
    /\ HookIdle
    /\ RaceIdle
    /\ run_pc = "start"
    /\ last_progress_time = 0
    /\ log_file = None
    /\ lines_read = << >>
    /\ run_exception = None
    /\ poll_due_at = 0
    /\ process = "none"
    /\ scan_trace = <<>>
    /\ PollIdle
    /\ emitted = <<>>
    /\ SaveIdle

\* Variables of the call the scanner leaves alone.
scanRest == <<call, moVars, enVars, fanVars, msaVars, get_returned, hookVars, raceVars, pollVars, emitted, saveVars, rnBzRest,
              return_code, stop_progress_monitor, monitor_pc, last_design_counts, n_polls,
              log_file, lines_read, run_exception, poll_due_at, process>>

\* Lines 241-242: reported_stages = set(), last_progress_time = time.time().
ScanStart ==
    /\ run_pc = "start"
    /\ reported_stages' = {}
    /\ last_progress_time' = now
    /\ run_pc' = "lines"
    /\ UNCHANGED <<ledgerVars, scanRest, n_lines, scan_trace>>

\* One iteration of "for line in process.stdout" (lines 330-339):
\* check_line_for_progress(line).
ScanLine ==
    /\ run_pc = "lines"
    /\ n_lines < MaxScanLines
    /\ n_lines' = n_lines + 1
    /\ \E words \in ScanLines :
          LET st == check_line_for_progress([words |-> words, bytes |-> 0],
                        [reported |-> reported_stages, ledger |-> job_status_dict,
                         last |-> last_progress_time], now)
          IN /\ reported_stages' = st.reported
             /\ job_status_dict' = st.ledger
             /\ last_progress_time' = st.last
             /\ scan_trace' = Append(scan_trace,
                                 [line |-> words, seen |-> reported_stages,
                                  seen_after |-> st.reported,
                                  emitted |-> EventsSince(job_status_dict, st.ledger)])
    /\ UNCHANGED <<now, scanRest, run_pc>>

\* Time passes between two lines.
ScanTick ==
    /\ run_pc = "lines"
    /\ \E d \in TickSeconds :
          /\ now + d <= MaxClock
          /\ now' = now + d
    /\ UNCHANGED <<job_status_dict, scanRest, reported_stages, last_progress_time, n_lines,
                   run_pc, scan_trace>>

NextScanner == ScanStart \/ ScanLine \/ ScanTick

SpecScanner == InitScanner /\ [][NextScanner]_vars

RuleEvent(m) == [stage |-> stage_patterns[m].stage, message |-> stage_patterns[m].message]

\* The events of a scanned line that are rule events, heartbeats left out.
RuleEventsOf(entry) == SelectSeq(entry.emitted, IsRuleEvent)

\* The rules whose pattern matches the line and whose pair was not yet seen.
UnseenMatching(entry) ==
    {m \in 1..Len(stage_patterns) :
        /\ Matches(stage_patterns[m], entry.line)
        /\ stage_key(stage_patterns[m]) \notin entry.seen}

FirstOf(rules) == CHOOSE m \in rules : \A k \in rules : m <= k

\* C31: for each output line, the scanner emits the progress event of the
\* first rule, in list order, whose pattern matches the line and whose
\* (stage, message) pair has not yet been reported in this attempt, and
\* marks that pair seen, also when an earlier rule matches the same line
\* but has already been reported.
C31_FirstUnseenMatchingRuleEmits ==
    \A i \in DOMAIN scan_trace :
       UnseenMatching(scan_trace[i]) # {} =>
          /\ RuleEventsOf(scan_trace[i]) = <<RuleEvent(FirstOf(UnseenMatching(scan_trace[i])))>>
          /\ stage_key(stage_patterns[FirstOf(UnseenMatching(scan_trace[i]))])
                \in scan_trace[i].seen_after

\* C31 as the code has it: for each output line, only the first rule, in
\* list order, whose pattern matches the line counts.  The scanner emits
\* that rule's progress event and marks its pair seen if the pair has not
\* yet been reported in this attempt; if it has, or if no rule matches, the
\* line emits no rule event and marks nothing, whatever later rules match.
C31_FirstMatchingRuleDecides ==
    \A i \in DOMAIN scan_trace :
       LET m == FirstMatch(scan_trace[i].line)
       IN IF m # 0 /\ stage_key(stage_patterns[m]) \notin scan_trace[i].seen
          THEN /\ RuleEventsOf(scan_trace[i]) = <<RuleEvent(m)>>
               /\ scan_trace[i].seen_after =
                     scan_trace[i].seen \cup {stage_key(stage_patterns[m])}
          ELSE /\ RuleEventsOf(scan_trace[i]) = <<>>
               /\ scan_trace[i].seen_after = scan_trace[i].seen

\* A line whose first matching rule was already reported and whose second
\* matching rule was not has been scanned, after a line that emitted.
C31_Witness ==
    \E i, j \in DOMAIN scan_trace :
       /\ i < j
       /\ RuleEventsOf(scan_trace[i]) # <<>>
       /\ FirstMatch(scan_trace[j].line) # 0
       /\ stage_key(stage_patterns[FirstMatch(scan_trace[j].line)]) \in scan_trace[j].seen
       /\ UnseenMatching(scan_trace[j]) # {}
       /\ RuleEventsOf(scan_trace[j]) = <<>>
(***************************************************************************)
(* SpecPoller: progress_monitor of run_boltzgen_with_progress on its own,  *)
(* polling the output directory of the external tool while the tool        *)
(* writes its design files.                                                *)
(***************************************************************************)

\* Model bounds: the polls of one call, and the files the tool writes.
MaxPollerPolls == 3
MaxFiles == 3

\* stages of count_designs_in_stage, in the order of the list.
PollStages ==
    <<[stage_name |-> "design", total |-> num_designs],
      [stage_name |-> "inverse_folding", total |-> num_designs],
      [stage_name |-> "folding", total |-> num_designs],
      [stage_name |-> "filtering", total |-> budget]>>

\* count_designs_in_stage(): the last stage of the list whose directory
\* holds a file, with its count and total; None if there is none.
count_designs_in_stage(files) ==
    LET active == {k \in DOMAIN PollStages : files[PollStages[k].stage_name] > 0}
    IN IF active = {} THEN None
       ELSE LET k == CHOOSE a \in active : \A b \in active : b <= a
            IN Some([stage_name |-> PollStages[k].stage_name,
                     count |-> files[PollStages[k].stage_name],
                     total |-> PollStages[k].total])

\* last_design_counts.get(stage_name) != count
CountAlwaysChanged(last, stage_name, count) == TRUE
CountChanged(last, stage_name, count) ==
    stage_name \notin DOMAIN last \/ last[stage_name] # count

\* f"{label}: {count}/{total} complete"
CountMessage(result) ==
    stage_labels[result.stage_name] \o ": " \o ToString(result.count) \o "/"
    \o ToString(result.total) \o " complete"

\* A ledger call of the monitor returns or raises.
LedgerOutcomes == {"returned", "raised"}

InitPoller ==
    /\ job_status_dict = EmptyDict
    /\ now = RunStartTime
    /\ call = NoCall
    /\ BzIdle
    /\ MoIdle
    /\ EnIdle
    /\ FanIdle
    /\ MsaIdle
    /\ get_returned = None
    /\ HookIdle
    /\ RaceIdle
    /\ ScanIdle
    /\ run_pc = "start"
    /\ last_progress_time = 0
    /\ log_file = None
    /\ lines_read = << >>
    /\ run_exception = None
    /\ poll_due_at = 0
    /\ process = "none"
    /\ stage_files = [k \in {PollStages[i].stage_name : i \in DOMAIN PollStages} |-> 0]
    /\ poll_trace = <<>>
    /\ emitted = <<>>
    /\ SaveIdle

\* Variables of the call the poller leaves alone.
pollRest == <<call, moVars, enVars, fanVars, msaVars, get_returned, hookVars, raceVars, scanVars, emitted, saveVars,
              rnBzRest, reported_stages, return_code, n_lines, last_progress_time, log_file,
              lines_read, run_exception, process>>

\* Lines 243-244 and 315-326: last_design_counts = {}, the monitor thread is
\* started and the subprocess spawned.
PollerStart ==
    /\ run_pc = "start"
    /\ last_design_counts' = EmptyDict
    /\ stop_progress_monitor' = FALSE
    /\ monitor_pc' = "wait"
    /\ poll_due_at' = now + poll_interval
    /\ run_pc' = "lines"
    /\ UNCHANGED <<ledgerVars, pollRest, n_polls, stage_files, poll_trace>>

\* The external tool writes one more design file into a stage directory.
ToolWritesFile ==
    /\ run_pc = "lines"
    /\ stage_files["design"] + stage_files["inverse_folding"] + stage_files["folding"]
          + stage_files["filtering"] < MaxFiles
    /\ \E s \in DOMAIN stage_files : stage_files' = [stage_files EXCEPT ![s] = @ + 1]
    /\ UNCHANGED <<ledgerVars, pollRest, last_design_counts, stop_progress_monitor, monitor_pc,
                   poll_due_at, n_polls, run_pc, poll_trace>>

\* progress_monitor lines 271-293: the wait times out after 30 s and the
\* loop body runs; what a ledger call raises is caught and printed, and the
\* rest of the body is skipped.
PollerPoll ==
    /\ monitor_pc = "wait"
    /\ ~stop_progress_monitor
    /\ n_polls < MaxPollerPolls
    /\ n_polls' = n_polls + 1
    /\ now' = poll_due_at
    /\ poll_due_at' = poll_due_at + poll_interval
    /\ \E usage_call \in LedgerOutcomes, progress_call \in LedgerOutcomes :
          LET t == poll_due_at
              usage == IF usage_call = "returned"
                       THEN send_usage_update(job_status_dict, Some(BzJobId), BzGpuType,
                                              t - RunStartTime, t)
                       ELSE job_status_dict
              result == IF usage_call = "returned" THEN count_designs_in_stage(stage_files)
                        ELSE None
              changed == result # None
                         /\ CountChanged(last_design_counts, result[1].stage_name,
                                         result[1].count)
              stored == IF changed /\ progress_call = "returned"
                        THEN send_progress(usage, Some(BzJobId), result[1].stage_name,
                                           CountMessage(result[1]), t)
                        ELSE usage
          IN /\ last_design_counts' =
                   IF changed
                   THEN SetKey(last_design_counts, result[1].stage_name, result[1].count)
                   ELSE last_design_counts
             /\ job_status_dict' = stored
             /\ poll_trace' = Append(poll_trace,
                                  [observed |-> result,
                                   emitted |-> EventsSince(job_status_dict, stored)])
    /\ UNCHANGED <<pollRest, stop_progress_monitor, monitor_pc, run_pc, stage_files>>

\* The output ends: the finally block sets the stop event (lines 351-354).
PollerSetStop ==
    /\ run_pc = "lines"
    /\ stop_progress_monitor' = TRUE
    /\ run_pc' = "returned"
    /\ UNCHANGED <<ledgerVars, pollRest, last_design_counts, monitor_pc, poll_due_at, n_polls,
                   stage_files, poll_trace>>

\* progress_monitor: the wait returns True and the thread ends.
PollerStop ==
    /\ monitor_pc = "wait"
    /\ stop_progress_monitor
    /\ monitor_pc' = "exited"
    /\ UNCHANGED <<ledgerVars, pollRest, last_design_counts, stop_progress_monitor, poll_due_at,
                   n_polls, run_pc, stage_files, poll_trace>>

NextPoller == PollerStart \/ ToolWritesFile \/ PollerPoll \/ PollerSetStop \/ PollerStop

SpecPoller == InitPoller /\ [][NextPoller]_vars

\* The earlier polls of the call that emitted an event for the stage.
ReportsBefore(i, stage_name) ==
    {k \in 1..(i - 1) : /\ poll_trace[k].emitted # <<>>
                        /\ poll_trace[k].observed[1].stage_name = stage_name}

\* The count last reported for the stage before poll i, None if none was.
LastReported(i, stage_name) ==
    IF ReportsBefore(i, stage_name) = {} THEN None
    ELSE LET k == CHOOSE a \in ReportsBefore(i, stage_name) :
                     \A b \in ReportsBefore(i, stage_name) : b <= a
         IN Some(poll_trace[k].observed[1].count)

\* C32: the poller emits a design-count progress event on a poll only if the
\* count of the reported stage differs from the count last reported for that
\* stage in this attempt, and the event is "<label>: <count>/<total>
\* complete" for the stage and count it observed; consecutive polls that
\* observe an unchanged count emit no progress event.
C32_CountEventOnlyOnChange ==
    \A i \in DOMAIN poll_trace :
       /\ poll_trace[i].emitted # <<>> =>
             /\ poll_trace[i].observed # None
             /\ LastReported(i, poll_trace[i].observed[1].stage_name)
                   # Some(poll_trace[i].observed[1].count)
             /\ poll_trace[i].emitted =
                   <<[stage |-> poll_trace[i].observed[1].stage_name,
                      message |-> stage_labels[poll_trace[i].observed[1].stage_name] \o ": "
                                  \o ToString(poll_trace[i].observed[1].count) \o "/"
                                  \o ToString(IF poll_trace[i].observed[1].stage_name = "filtering"
                                              THEN budget ELSE num_designs)
                                  \o " complete"]>>
       /\ ( /\ i > 1
            /\ poll_trace[i].observed # None
            /\ poll_trace[i - 1].observed = poll_trace[i].observed )
          => poll_trace[i].emitted = <<>>

\* Three polls: the first reports a count, the second observes the same
\* count and reports nothing, the third observes a new count and reports.
C32_Witness ==
    /\ Len(poll_trace) = 3
    /\ poll_trace[1].emitted # <<>>
    /\ poll_trace[2].observed = poll_trace[1].observed
    /\ poll_trace[2].emitted = <<>>
    /\ poll_trace[3].observed # None
    /\ poll_trace[3].observed[1].stage_name = poll_trace[1].observed[1].stage_name
    /\ poll_trace[3].observed[1].count = 2
    /\ poll_trace[3].emitted # <<>>
(***************************************************************************)
(* SpecWriters: one call of run_boltzgen_with_progress with its two ledger *)
(* writers, the main thread scanning the output and the progress_monitor   *)
(* thread polling the output directory.  A ledger call is two steps, the   *)
(* read of the stored record and the write of the modified one, and the    *)
(* steps of the two threads interleave.  Every ledger write takes time.    *)
(***************************************************************************)

\* Model bounds: the lines read, the polls made and the files written.
MaxWriterLines == 2
MaxWriterPolls == 2
MaxWriterFiles == 2

WriterLines == {<<"running", "diffusion">>, <<"diffusion", "complete">>}

\* The events run_boltzgen has sent when it calls run_boltzgen_with_progress
\* in a first attempt (lines 448, 462 and 538).
EventsBeforeRun ==
    <<ProgressEvent("init", "Initializing BoltzGen pipeline", 0),
      ProgressEvent("init", "Downloading target structure", 0),
      ProgressEvent("design", "Starting BoltzGen (" \o ToString(num_designs)
                              \o " designs, budget " \o ToString(budget) \o ")", 0)>>

LedgerBeforeRun ==
    send_progress(
        send_progress(
            send_progress(EmptyDict, Some(BzJobId), EventsBeforeRun[1].stage,
                          EventsBeforeRun[1].message, 0),
            Some(BzJobId), EventsBeforeRun[2].stage, EventsBeforeRun[2].message, 0),
        Some(BzJobId), EventsBeforeRun[3].stage, EventsBeforeRun[3].message, 0)

InitWriters ==
    /\ job_status_dict = LedgerBeforeRun
    /\ now = 1
    /\ call = NoCall
    /\ MoIdle
    /\ EnIdle
    /\ RnIdle
    /\ FanIdle
    /\ MsaIdle
    /\ get_returned = None
    /\ HookIdle
    /\ RaceIdle
    /\ ScanIdle
    /\ PollIdle
    /\ SaveIdle
    /\ emitted = [k \in 1..Len(EventsBeforeRun) |-> [writer |-> "main", event |-> EventsBeforeRun[k]]]
    /\ attempt = 0
    /\ pc = "run"
    /\ main_existing = None
    /\ pending_event = None
    /\ reported_stages = {}
    /\ return_code = None
    /\ stop_progress_monitor = FALSE
    /\ monitor_pc = "off"
    /\ monitor_existing = None
    /\ monitor_event = None
    /\ last_design_counts = EmptyDict
    /\ target_exists = TRUE
    /\ output_dir_exists = FALSE
    /\ preempted = FALSE
    /\ handler_existing = None
    /\ n_lines = 0
    /\ n_polls = 0
    /\ n_sigterm = 0
    /\ error_writes = 0
    /\ output_writes = 0

\* What no step of the two writers changes.
writersFrame == <<call, moVars, enVars, rnVars, fanVars, msaVars, get_returned, hookVars, raceVars,
                  scanVars, poll_trace, saveVars, attempt, return_code, target_exists, preempted,
                  handler_existing, n_sigterm, error_writes, output_writes>>

\* Lines 241-326: the scanner's and the monitor's state are initialised, the
\* monitor thread is started and the subprocess spawned.
WritersStart ==
    /\ pc = "run"
    /\ pc' = "lines"
    /\ reported_stages' = {}
    /\ last_design_counts' = EmptyDict
    /\ stop_progress_monitor' = FALSE
    /\ monitor_pc' = "wait"
    /\ output_dir_exists' = TRUE
    /\ stage_files' = [k \in {PollStages[i].stage_name : i \in DOMAIN PollStages} |-> 0]
    /\ UNCHANGED <<ledgerVars, writersFrame, main_existing, pending_event, monitor_existing,
                   monitor_event, n_lines, n_polls, emitted>>

\* The external tool writes one more design file into a stage directory.
WritersToolWritesFile ==
    /\ pc = "lines"
    /\ stage_files["design"] + stage_files["inverse_folding"] + stage_files["folding"]
          + stage_files["filtering"] < MaxWriterFiles
    /\ \E s \in {"design", "inverse_folding"} :
          stage_files' = [stage_files EXCEPT ![s] = @ + 1]
    /\ UNCHANGED <<ledgerVars, writersFrame, pc, main_existing, pending_event, reported_stages,
                   stop_progress_monitor, monitor_pc, monitor_existing, monitor_event,
                   last_design_counts, output_dir_exists, n_lines, n_polls, emitted>>

\* One iteration of "for line in process.stdout" up to the ledger call of
\* check_line_for_progress, if it makes one; whether more than 60 s have
\* passed since last_progress_time is the environment's choice.
WritersReadLine ==
    /\ pc = "lines"
    /\ n_lines < MaxWriterLines
    /\ n_lines' = n_lines + 1
    /\ \E line \in WriterLines, late \in BOOLEAN :
          IF FirstMatch(line) # 0
             /\ stage_key(stage_patterns[FirstMatch(line)]) \notin reported_stages
          THEN /\ reported_stages' =
                     reported_stages \cup {stage_key(stage_patterns[FirstMatch(line)])}
               /\ pending_event' = Some(RuleEvent(FirstMatch(line)))
               /\ pc' = "scan"
          ELSE /\ pending_event' =
                     IF late THEN Some([stage |-> "processing", message |-> "Pipeline running..."])
                     ELSE None
               /\ pc' = (IF late THEN "scan" ELSE "lines")
               /\ UNCHANGED reported_stages
    /\ UNCHANGED <<ledgerVars, writersFrame, main_existing, stop_progress_monitor, monitor_pc,
                   monitor_existing, monitor_event, last_design_counts, output_dir_exists,
                   n_polls, stage_files, emitted>>

\* send_progress of the main thread: update_job_status line 31.
WritersMainRead ==
    /\ pc = "scan"
    /\ main_existing = None
    /\ main_existing' = Some(ReadExisting(job_status_dict, BzJobId, "pending", now))
    /\ UNCHANGED <<ledgerVars, writersFrame, pc, pending_event, reported_stages,
                   stop_progress_monitor, monitor_pc, monitor_existing, monitor_event,
                   last_design_counts, output_dir_exists, n_lines, n_polls, stage_files,
                   emitted>>

\* send_progress of the main thread: update_job_status lines 38-55.
WritersMainWrite ==
    /\ pc = "scan"
    /\ main_existing # None
    /\ job_status_dict' =
          StoreRecord(job_status_dict, BzJobId,
              ModifyRecord(main_existing[1], "running", Some(pending_event[1].stage),
                           Some(pending_event[1].message), None, None, None, now))
    /\ emitted' = Append(emitted,
                     [writer |-> "main",
                      event |-> ProgressEvent(pending_event[1].stage, pending_event[1].message,
                                              now)])
    /\ now' = now + 1
    /\ main_existing' = None
    /\ pending_event' = None
    /\ pc' = "lines"
    /\ UNCHANGED <<writersFrame, reported_stages, stop_progress_monitor, monitor_pc,
                   monitor_existing, monitor_event, last_design_counts, output_dir_exists,
                   n_lines, n_polls, stage_files>>

\* The output ends and process.wait() returns 0; the finally block sets the
\* stop event and joins the monitor for at most 2 s (lines 342-354).
WritersReturn ==
    /\ pc = "lines"
    /\ pc' = "returned"
    /\ stop_progress_monitor' = TRUE
    /\ UNCHANGED <<ledgerVars, writersFrame, main_existing, pending_event, reported_stages,
                   monitor_pc, monitor_existing, monitor_event, last_design_counts,
                   output_dir_exists, n_lines, n_polls, stage_files, emitted>>

\* progress_monitor: stop_progress_monitor.wait(timeout=30) returns False.
WritersMonitorWake ==
    /\ monitor_pc = "wait"
    /\ ~stop_progress_monitor
    /\ n_polls < MaxWriterPolls
    /\ n_polls' = n_polls + 1
    /\ monitor_pc' = "usage"
    /\ UNCHANGED <<ledgerVars, writersFrame, pc, main_existing, pending_event, reported_stages,
                   stop_progress_monitor, monitor_existing, monitor_event, last_design_counts,
                   output_dir_exists, n_lines, stage_files, emitted>>

\* progress_monitor: the wait returns True and the thread ends.
WritersMonitorStop ==
    /\ monitor_pc = "wait"
    /\ stop_progress_monitor
    /\ monitor_pc' = "exited"
    /\ UNCHANGED <<ledgerVars, writersFrame, pc, main_existing, pending_event, reported_stages,
                   stop_progress_monitor, monitor_existing, monitor_event, last_design_counts,
                   output_dir_exists, n_lines, n_polls, stage_files, emitted>>

\* send_usage_update lines 79-84.
WritersUsageRead ==
    /\ monitor_pc = "usage"
    /\ monitor_existing = None
    /\ monitor_existing' = Some(ReadExisting(job_status_dict, BzJobId, "running", now))
    /\ UNCHANGED <<ledgerVars, writersFrame, pc, main_existing, pending_event, reported_stages,
                   stop_progress_monitor, monitor_pc, monitor_event, last_design_counts,
                   output_dir_exists, n_lines, n_polls, stage_files, emitted>>

\* send_usage_update lines 87-94, then progress_monitor lines 278-291 up to
\* the call of send_progress.
WritersUsageWrite ==
    /\ monitor_pc = "usage"
    /\ monitor_existing # None
    /\ job_status_dict' =
          StoreRecord(job_status_dict, BzJobId,
                      ModifyUsage(monitor_existing[1], BzGpuType, now - RunStartTime, now))
    /\ now' = now + 1
    /\ monitor_existing' = None
    /\ LET result == count_designs_in_stage(stage_files)
       IN IF result # None
             /\ CountChanged(last_design_counts, result[1].stage_name, result[1].count)
          THEN /\ last_design_counts' =
                     SetKey(last_design_counts, result[1].stage_name, result[1].count)
               /\ monitor_event' = Some([stage |-> result[1].stage_name,
                                         message |-> CountMessage(result[1])])
               /\ monitor_pc' = "progress"
          ELSE /\ monitor_pc' = "wait"
               /\ UNCHANGED <<last_design_counts, monitor_event>>
    /\ UNCHANGED <<writersFrame, pc, main_existing, pending_event, reported_stages,
                   stop_progress_monitor, output_dir_exists, n_lines, n_polls, stage_files,
                   emitted>>

\* send_progress of the monitor: update_job_status line 31.
WritersProgressRead ==
    /\ monitor_pc = "progress"
    /\ monitor_existing = None
    /\ monitor_existing' = Some(ReadExisting(job_status_dict, BzJobId, "pending", now))
    /\ UNCHANGED <<ledgerVars, writersFrame, pc, main_existing, pending_event, reported_stages,
                   stop_progress_monitor, monitor_pc, monitor_event, last_design_counts,
                   output_dir_exists, n_lines, n_polls, stage_files, emitted>>

\* send_progress of the monitor: update_job_status lines 38-55.
WritersProgressWrite ==
    /\ monitor_pc = "progress"
    /\ monitor_existing # None
    /\ job_status_dict' =
          StoreRecord(job_status_dict, BzJobId,
              ModifyRecord(monitor_existing[1], "running", Some(monitor_event[1].stage),
                           Some(monitor_event[1].message), None, None, None, now))
    /\ emitted' = Append(emitted,
                     [writer |-> "monitor",
                      event |-> ProgressEvent(monitor_event[1].stage, monitor_event[1].message,
                                              now)])
    /\ now' = now + 1
    /\ monitor_existing' = None
    /\ monitor_event' = None
    /\ monitor_pc' = "wait"
    /\ UNCHANGED <<writersFrame, pc, main_existing, pending_event, reported_stages,
                   stop_progress_monitor, last_design_counts, output_dir_exists, n_lines,
                   n_polls, stage_files>>

NextWriters ==
    \/ WritersStart \/ WritersToolWritesFile \/ WritersReadLine \/ WritersMainRead
    \/ WritersMainWrite \/ WritersReturn
    \/ WritersMonitorWake \/ WritersMonitorStop \/ WritersUsageRead \/ WritersUsageWrite
    \/ WritersProgressRead \/ WritersProgressWrite

SpecWriters == InitWriters /\ [][NextWriters]_vars

\* The stored progress list of the job.
StoredProgress == ProgressOf(job_status_dict, BzJobId)

\* The positions in the list of emissions of a writer's event.
EmissionsOf(writer, e) ==
    {k \in DOMAIN emitted : emitted[k].writer = writer /\ emitted[k].event = e}

\* C33: under any interleaving of the main thread and the monitor thread,
\* the progress events of each one writer that are present in the stored
\* progress list appear there in the order in which the writer emitted them.
C33_EachWriterInEmissionOrder ==
    \A writer \in {"main", "monitor"} :
       \A i, j \in DOMAIN StoredProgress :
          ( /\ i < j
            /\ EmissionsOf(writer, StoredProgress[i]) # {}
            /\ EmissionsOf(writer, StoredProgress[j]) # {} )
          => \A a \in EmissionsOf(writer, StoredProgress[i]),
                b \in EmissionsOf(writer, StoredProgress[j]) : a < b

\* Both writers emitted two events, an event of each was lost to the other
\* writer, and an event of each is stored.
C33_Witness ==
    /\ \A writer \in {"main", "monitor"} :
          /\ Cardinality({k \in DOMAIN emitted :
                             emitted[k].writer = writer /\ emitted[k].event.timestamp > 0}) = 2
          /\ \E k \in DOMAIN emitted :
                /\ emitted[k].writer = writer
                /\ \A i \in DOMAIN StoredProgress : StoredProgress[i] # emitted[k].event
          /\ \E k \in DOMAIN emitted :
                /\ emitted[k].writer = writer
                /\ emitted[k].event.timestamp > 0
                /\ \E i \in DOMAIN StoredProgress : StoredProgress[i] = emitted[k].event
\* run_boltzgen_with_progress has returned or raised in the running attempt
\* of run_boltzgen (SpecBoltzgen).
RunHasLeft ==
    pc \in {"failed", "raise", "parse", "upload", "complete", "completion", "cleanup", "done"}

\* The step is a ledger write of the monitor thread (the write of
\* send_usage_update or of send_progress).
MonitorWrites ==
    /\ monitor_existing # None
    /\ monitor_existing' = None
    /\ monitor_pc' \in {"count", "wait"}

\* C34: after run_boltzgen_with_progress has returned or raised, the
\* monitor thread performs no further ledger write for the job, so that no
\* monitor write in flight overwrites what the caller writes next.
C34_NoMonitorWriteAfterRun ==
    [][ RunHasLeft => ~MonitorWrites ]_vars
(***************************************************************************)
(* SpecSaveState: PreemptionManager.save_state step by step on a worker    *)
(* that can receive SIGTERM and be killed while it runs, and load_state on *)
(* the worker started afterwards.  write_text opens the file for writing,  *)
(* which truncates it, writes the text and closes the file; then the       *)
(* adapter commits the volume.                                             *)
(***************************************************************************)

\* Model bound: the calls of save_state before the worker is killed.
MaxSaves == 2

\* The text of a file: the members written and whether the document is
\* complete, that is json.loads can parse it.
EmptyText == [members |-> <<>>, complete |-> FALSE]
FullText(state) == [members |-> json_dumps(state), complete |-> TRUE]

\* load_state on the directory's file: None without a file, the parsed
\* payload of a complete document, JSONDecodeError otherwise.
LoadOutcome(file) ==
    IF file = None THEN [outcome |-> "returned", value |-> None]
    ELSE IF file[1].complete
         THEN [outcome |-> "returned", value |-> Some(json_loads(file[1].members))]
         ELSE [outcome |-> "raised", value |-> None]

InitSaveState ==
    /\ job_status_dict = EmptyDict
    /\ now = 0
    /\ call = NoCall
    /\ BzIdle
    /\ MoIdle
    /\ EnIdle
    /\ RnIdle
    /\ FanIdle
    /\ MsaIdle
    /\ get_returned = None
    /\ HookIdle
    /\ RaceIdle
    /\ ScanIdle
    /\ PollIdle
    /\ emitted = <<>>
    /\ sv_pc = "ready"
    /\ sv_file = None
    /\ sv_committed = None
    /\ sv_state = None
    /\ sv_previous = None
    /\ sv_saves = 0
    /\ sv_sigterm = FALSE
    /\ sv_loaded = None

saveRest == <<job_status_dict, now, call, bzVars, moVars, enVars, rnVars, fanVars, msaVars,
              get_returned, hookVars, raceVars, scanVars, pollVars, emitted>>

\* save_state(state) is called; the payload of the last call that returned
\* is the previously saved one.
SaveCall ==
    /\ sv_pc = "ready"
    /\ sv_saves < MaxSaves
    /\ sv_saves' = sv_saves + 1
    /\ \E state \in Payloads : sv_state' = Some(state)
    /\ sv_pc' = "open"
    /\ UNCHANGED <<saveRest, sv_file, sv_committed, sv_previous, sv_sigterm, sv_loaded>>

\* write_text: open(mode="w") creates the file or truncates it.
SaveOpen ==
    /\ sv_pc = "open"
    /\ sv_file' = Some(EmptyText)
    /\ sv_pc' = "write"
    /\ UNCHANGED <<saveRest, sv_committed, sv_state, sv_previous, sv_saves, sv_sigterm,
                   sv_loaded>>

\* write_text: f.write(json.dumps(state, indent=2)) and the close that
\* flushes it.
SaveWrite ==
    /\ sv_pc = "write"
    /\ sv_file' = Some(FullText(sv_state[1]))
    /\ sv_pc' = "commit"
    /\ UNCHANGED <<saveRest, sv_committed, sv_state, sv_previous, sv_saves, sv_sigterm,
                   sv_loaded>>

\* self.adapter.commit(), and the return of save_state.
SaveCommit ==
    /\ sv_pc = "commit"
    /\ sv_committed' = sv_file
    /\ sv_previous' = sv_state
    /\ sv_pc' = "ready"
    /\ UNCHANGED <<saveRest, sv_file, sv_state, sv_saves, sv_sigterm, sv_loaded>>

\* SIGTERM while save_state runs: _handler interrupts the thread between
\* two of its steps and calls adapter.commit() (lines 72-76), which commits
\* the volume as it is.
SaveSigterm ==
    /\ sv_pc \in {"open", "write", "commit"}
    /\ ~sv_sigterm
    /\ sv_sigterm' = TRUE
    /\ sv_committed' = sv_file
    /\ UNCHANGED <<saveRest, sv_pc, sv_file, sv_state, sv_previous, sv_saves, sv_loaded>>

\* The worker is killed during save_state; the next worker mounts the
\* volume as last committed.
SaveKill ==
    /\ sv_pc \in {"open", "write", "commit"}
    /\ sv_file' = sv_committed
    /\ sv_pc' = "restarted"
    /\ UNCHANGED <<saveRest, sv_committed, sv_state, sv_previous, sv_saves, sv_sigterm,
                   sv_loaded>>

\* load_state() on the next worker.
SaveLoad ==
    /\ sv_pc = "restarted"
    /\ sv_loaded' = Some(LoadOutcome(sv_file))
    /\ sv_pc' = "loaded"
    /\ UNCHANGED <<saveRest, sv_file, sv_committed, sv_state, sv_previous, sv_saves,
                   sv_sigterm>>

NextSaveState ==
    SaveCall \/ SaveOpen \/ SaveWrite \/ SaveCommit \/ SaveSigterm \/ SaveKill \/ SaveLoad

SpecSaveState == InitSaveState /\ [][NextSaveState]_vars

\* C35: if the worker is killed at any point during save_state, a later
\* load_state returns the previously saved payload in full or the new
\* payload in full, or nothing if nothing was ever saved; it never raises
\* on, or returns, a partially written checkpoint.
C35_KilledSaveLeavesOldOrNew ==
    sv_loaded # None =>
       /\ sv_loaded[1].outcome = "returned"
       /\ \/ sv_loaded[1].value = sv_state
          \/ sv_loaded[1].value = sv_previous

\* What the code does keep: a worker killed during save_state without a
\* commit in between, that is without SIGTERM handled inside save_state,
\* leaves the previously saved payload, or nothing if there was none.
C35_WithoutCommitInBetween ==
    (sv_loaded # None /\ ~sv_sigterm) =>
       /\ sv_loaded[1].outcome = "returned"
       /\ sv_loaded[1].value = sv_previous
\* The array files a checkpoint names hold the candidates written for it:
\* the working candidate of its phase and steps_completed, and a best
\* candidate of no later chunk.
ArtifactsOf(dir) ==
    load_state(dir) # None =>
        LET state == load_state(dir)[1]
            soft == LoadArray(dir, state, "soft_sequence_path")
            best_file == LoadArray(dir, state, "best_sequence_path")
        IN  /\ soft # None
            /\ best_file # None
            /\ soft[1].phase = state["phase"]
            /\ soft[1].steps = state["steps_completed"]
            /\ best_file[1].phase = state["phase"] =>
                  best_file[1].steps <= state["steps_completed"]

\* C36: at every point at which the worker can be killed, the working and
\* best candidate files named by the stored checkpoint.json are the ones
\* written for that checkpoint's phase and steps_completed, never files of a
\* later chunk: it holds of the volume as committed, which is what the
\* next worker finds after a kill.
C36_ArtifactsNeverAheadOfCheckpoint ==
    MoAttemptRunning => ArtifactsOf(committed_dir)

(***************************************************************************)
(* SpecRace: run_mosaic_boltz2 with each update_job_status call of the     *)
(* main thread taken as the read of line 31 and the write of lines 38-55,  *)
(* and the SIGTERM handler of PreemptionManager, which Python runs in the  *)
(* main thread between two of its bytecodes, to completion.                *)
(***************************************************************************)

raceOther == <<call, bzVars, enVars, rnVars, fanVars, msaVars, get_returned, hookVars, scanVars,
               pollVars, emitted, saveVars, optArgs, optAttempt, optPhase, optHistory, ended_at,
               n_steps, sharpen_steps, chunk_size, mo_attempt, kills, exception, phase,
               completed_steps, phase_name, start_steps, total_steps, steps_completed,
               steps_this, chunk_steps_done, loaded_state, steps_executed, phases_returned,
               checkpoint_writes, executed_ever, executed_before, reexecuted>>

\* Where the handler registered at mosaic.py line 217 can interrupt the body
\* of run_mosaic_boltz2.
InFunctionBody == mo_pc \notin {"idle", "raise", "return", "done", "exhausted"}

\* update_job_status line 31: existing = job_status_dict.get(job_id) or {...}.
RaceRead ==
    /\ mo_pc \in MoLedgerPositions
    /\ mo_existing = None
    /\ mo_existing' = Some(ReadExisting(job_status_dict, MoJobId, "pending", now))
    /\ UNCHANGED <<raceOther, ledgerVars, raced, mo_pc, work_dir, committed_dir, mo_preempted,
                   sigterm_sent, sigterm_at>>

\* update_job_status lines 38-55 on the record read before;
\* download_to_path follows the call at "download".
RaceWrite ==
    /\ mo_pc \in MoLedgerPositions
    /\ mo_existing # None
    /\ job_status_dict' =
          StoreRecord(job_status_dict, MoJobId,
              ModifyRecord(mo_existing[1], MoCall.status, MoCall.stage, MoCall.message,
                           MoCall.output, MoCall.error, MoCall.usage, now))
    /\ mo_existing' = None
    /\ mo_pc' = MoAfterCall
    /\ work_dir' = [work_dir EXCEPT !.target = @ \/ mo_pc = "download"]
    /\ UNCHANGED <<raceOther, now, raced, committed_dir, mo_preempted, sigterm_sent, sigterm_at>>

\* PreemptionManager._handler (preemption.py lines 72-76) on SIGTERM:
\* preempted = True, the on_preempt callback of mosaic.py line 217, then
\* adapter.commit().  The main thread resumes where it was.
RaceSigterm ==
    /\ InFunctionBody
    /\ ~sigterm_sent
    /\ sigterm_sent' = TRUE
    /\ sigterm_at' = Some([pc |-> mo_pc, done |-> chunk_steps_done])
    /\ mo_preempted' = TRUE
    /\ job_status_dict' = send_progress(job_status_dict, Some(MoJobId), "processing",
                                        "Preemption detected, checkpointing...", now)
    /\ committed_dir' = work_dir
    /\ raced' = IF mo_existing # None
                THEN Some([handler |-> ProgressEvent("processing",
                                          "Preemption detected, checkpointing...", now),
                           main |-> MoCall,
                           at |-> now])
                ELSE raced
    /\ UNCHANGED <<raceOther, now, mo_existing, mo_pc, work_dir>>

NextRace ==
    \/ MoStart \/ RaceRead \/ RaceWrite \/ LoadState \/ RunPhase \/ LoopTest \/ ExecStep
    \/ SaveArrays \/ SaveCheckpoint \/ RaiseIfPreempted \/ MoRaise \/ Upload \/ ClearState
    \/ MoReturn \/ RaceSigterm

SpecRace == InitMosaic /\ [][NextRace]_vars

StoredEvents ==
    IF get_job_status(job_status_dict, MoJobId) = None
    THEN {}
    ELSE LET progress == get_job_status(job_status_dict, MoJobId)[1]["progress"]
         IN  {progress[i] : i \in DOMAIN progress}

\* What a call of the main thread leaves in the record: its event, and its
\* status, output and usage when it is send_completion.
MainUpdateStored(main, t) ==
    LET record == get_job_status(job_status_dict, MoJobId)
    IN  /\ record # None
        /\ Truthy(main.stage) /\ Truthy(main.message) =>
              ProgressEvent(main.stage[1], main.message[1], t) \in StoredEvents
        /\ main.status = "completed" =>
              /\ record[1]["status"] = "completed"
              /\ "output" \in DOMAIN record[1]

\* The main thread has written the record it read before the handler ran.
RaceFinished == raced # None /\ mo_existing = None

\* C37: when the SIGTERM handler runs while the main thread is between the
\* read and the write of its own update_job_status call on the same job_id,
\* both the handler's progress event and the main thread's update are in the
\* stored record once both have finished.
C37_BothUpdatesStored ==
    RaceFinished =>
        /\ raced[1].handler \in StoredEvents
        /\ MainUpdateStored(raced[1].main, raced[1].at)

\* The main thread's own update is there after such an overlap.
C37_MainUpdateStored ==
    RaceFinished => MainUpdateStored(raced[1].main, raced[1].at)

(***************************************************************************)
(* SpecGraceful: run_mosaic_boltz2 under modal.Retries when every          *)
(* preemption is a SIGTERM the worker survives until the attempt raises    *)
(* PreemptionRequested or returns, and there are fewer of them than        *)
(* max_retries.  The worker keeps running, so the step of the program      *)
(* that is enabled is eventually taken; nothing obliges the platform to    *)
(* send a signal or to commit in the background.                           *)
(***************************************************************************)

\* SIGTERM anywhere in the body of the function, in a run that has been
\* preempted fewer than max_retries - 1 times so far.
GracefulSigterm ==
    /\ mo_attempt + 1 < mosaic_max_retries
    /\ RaceSigterm

\* The statements of run_mosaic_boltz2 and the retry of modal.Retries.
GracefulProgram ==
    \/ MoStart \/ MoLedgerCall \/ LoadState \/ RunPhase \/ LoopTest \/ ExecStep
    \/ SaveArrays \/ SaveCheckpoint \/ RaiseIfPreempted \/ MoRaise \/ Upload \/ ClearState
    \/ MoReturn

NextGraceful == GracefulProgram \/ BackgroundCommit \/ GracefulSigterm

SpecGraceful == InitMosaic /\ [][NextGraceful]_vars /\ WF_vars(GracefulProgram)

RecordedCompleted ==
    /\ get_job_status(job_status_dict, MoJobId) # None
    /\ get_job_status(job_status_dict, MoJobId)[1]["status"] = "completed"

\* One optimization step is executed.
StepExecuted == mo_pc = "chunk" /\ chunk_steps_done' = chunk_steps_done + 1

\* C38: under fairness, run_mosaic_boltz2 with a fixed job_id and
\* chunk_size >= 1 that is gracefully preempted fewer times than the retry
\* limit eventually records status completed, and over all its attempts
\* executes exactly n_steps coarse steps and exactly sharpen_steps sharpen
\* steps: every step executed is the one after the last step executed in
\* any attempt of its phase, and the run ends with all of them executed.
C38_GracefulRunCompletesEachStepOnce ==
    /\ <>RecordedCompleted
    /\ [](mo_pc = "done" =>
            /\ RecordedCompleted
            /\ executed_ever = [coarse |-> n_steps, sharpen |-> sharpen_steps])
    /\ [][StepExecuted =>
            executed_ever'[phase_name] = executed_ever[phase_name] + 1]_vars

\* A run preempted in two attempts, in the coarse phase and later, that has
\* returned with every step executed.
C38_Witness ==
    /\ mo_pc = "done"
    /\ mo_attempt = 2
    /\ chunk_size >= 1
    /\ n_steps = 3
    /\ RecordedCompleted
    /\ executed_ever = [coarse |-> n_steps, sharpen |-> sharpen_steps]
    /\ \E i \in DOMAIN get_job_status(job_status_dict, MoJobId)[1]["progress"] :
          get_job_status(job_status_dict, MoJobId)[1]["progress"][i]["message"]
             = "Preemption detected, checkpointing..."
====
